---- MODULE Spec2Model ----
(***************************************************************************)
(* A model of the Hilbert R-tree of jtejido/hrtree (src/hrtree.go,         *)
(* src/geom.go).  The heap of *node values is the sequence `nodes`: a node *)
(* pointer is an index into it and Nil is the nil pointer.  Nodes are      *)
(* never freed (Go keeps every node that is still referenced), so stale    *)
(* parent/left/right pointers keep pointing at the node they named.        *)
(* Every Go function is an operator over a store s = [nodes, panic]; a     *)
(* panic (explicit panic(), nil dereference, unbounded recursion) sets     *)
(* s.panic and makes every later step of the call a no-op.                 *)
(***************************************************************************)
EXTENDS Integers, Sequences, FiniteSets, TLC

VARIABLES
    MinChildren,   \* Rtree.MinChildren
    MaxChildren,   \* Rtree.MaxChildren
    root,          \* Rtree.root
    size,          \* Rtree.size
    nodes,         \* the heap of nodes
    err,           \* NewTree returned a non-nil error (and no tree)
    panicked,      \* a call on the tree panicked: the program is gone
    hist,          \* the calls made so far, <<[op, obj, ok, leaf, after]>>
    pre,           \* [root, nodes, size] as they were before the last call
    stored,        \* the objects inserted and not taken out by a Delete since
    geom           \* a call of a geom.go function: [r1, r2, op, res]

vars == <<MinChildren, MaxChildren, root, size, nodes, err, panicked, hist, pre, stored, geom>>

----------------------------------------------------------------------------
(* Program constants *)

DefaultMaxNodeEntries == 1000
DefaultMinNodeEntries == 20
Dim == 2
SiblingsNumber == 2

Nil == 0
NoObj == 0
\* Rtree.Bits of the trees built here: the Hilbert curve has 2 bits per axis
Bits == 2

(* Bounds of the model *)

\* calls made on one tree under Spec
MaxOps == 4
\* Insert calls made on one tree under SpecDrain, before the Deletes
MaxInserts == 10
\* calls made on one tree under SpecNew
MaxOpsNew == 2
\* the largest coordinate of the rectangles handed to the geom.go functions
MaxCoord == 2
\* Inserts made on one tree under SpecGrow
MaxGrow == 12
\* Inserts made on one tree under SpecShrink
MaxShrink == 5

----------------------------------------------------------------------------
(* Geometry: src/geom.go, the float64 Rect *)

\* a *Rect that is nil
NilRect == [lower |-> <<>>, upper |-> <<>>]

\* the zero value of Rect (var bb Rect)
ZeroRect == [lower |-> <<0, 0>>, upper |-> <<0, 0>>]

Axes == 1..Dim

\* r1.enlarge(r2): r1 grown to hold r2
enlarge(r1, r2) ==
    [lower |-> [i \in Axes |-> IF r1.lower[i] > r2.lower[i] THEN r2.lower[i] ELSE r1.lower[i]],
     upper |-> [i \in Axes |-> IF r1.upper[i] < r2.upper[i] THEN r2.upper[i] ELSE r1.upper[i]]]

\* r1.contains(r2)
contains(r1, r2) ==
    \A i \in Axes : ~(r1.lower[i] > r2.lower[i] \/ r2.upper[i] > r1.upper[i])

\* r1.equal(r2): false only on an axis where both the lower and the upper differ
equal(r1, r2) ==
    \A i \in Axes : ~(r1.lower[i] # r2.lower[i] /\ r2.upper[i] # r1.upper[i])

\* intersect(r1, r2) with strict comparisons: touching rectangles do not intersect
intersectStrict(r1, r2) ==
    \A i \in Axes : ~(r2.upper[i] <= r1.lower[i] \/ r1.upper[i] <= r2.lower[i])

\* intersect(r1, r2): touching rectangles intersect
intersect(r1, r2) ==
    \A i \in Axes : r1.lower[i] <= r2.upper[i] /\ r1.upper[i] >= r2.lower[i]

\* r.ToCenter(), then the uint64() conversion Insert applies to each coordinate
ToCenter(r) == [i \in Axes |-> (r.lower[i] + r.upper[i]) \div 2]

\* h.Hilbert.Encode for Bits = 2 (Skilling's transpose), indexed [x+1][y+1]
HilbertTable ==
    << <<0, 3, 4, 5>>,
       <<1, 2, 7, 6>>,
       <<14, 13, 8, 9>>,
       <<15, 12, 11, 10>> >>

Encode(x, y) == HilbertTable[x + 1][y + 1]

\* h.New(bits, 2): whether the Hilbert oracle rejects the resolution
hilbertNewFails(bits) == bits < 1

----------------------------------------------------------------------------
(* The objects (Spatial values) the callers hold.  Bounds() of object o is *)
(* ObjBounds[o]; Center() is Bounds().ToCenter(), as in the tests.         *)

ObjBounds ==
    << [lower |-> <<0, 0>>, upper |-> <<0, 0>>],     \* 1
       [lower |-> <<0, 0>>, upper |-> <<0, 0>>],     \* 2: another object, same rectangle as 1
       [lower |-> <<1, 1>>, upper |-> <<1, 1>>],     \* 3
       [lower |-> <<0, 0>>, upper |-> <<2, 2>>] >>   \* 4: shares its lower corner with 1 and 2

Objs == 1..Len(ObjBounds)

Bounds(o) == ObjBounds[o]

\* the rectangles SearchIntersect is asked about; the first covers the universe
Queries ==
    { [lower |-> <<0, 0>>, upper |-> <<3, 3>>],
      [lower |-> <<0, 0>>, upper |-> <<0, 0>>],
      [lower |-> <<1, 1>>, upper |-> <<3, 3>>],
      [lower |-> <<2, 2>>, upper |-> <<3, 3>>] }

Universe == [lower |-> <<0, 0>>, upper |-> <<3, 3>>]

----------------------------------------------------------------------------
(* Entries and entry lists *)

\* entry{bb, node, obj, h, leaf}; entry{node: n} leaves the other fields zero
leafEntry(o, hv) == [bb |-> Bounds(o), node |-> Nil, obj |-> o, h |-> hv, leaf |-> TRUE]

nodeEntry(n) == [bb |-> NilRect, node |-> n, obj |-> NoObj, h |-> 0, leaf |-> FALSE]

\* sort.Search(n, f): binary search for the smallest index in [i, j) whose h exceeds key
RECURSIVE sortSearch(_, _, _, _)
sortSearch(l, key, i, j) ==
    IF i < j
    THEN LET m == (i + j) \div 2
         IN  IF ~(l[m + 1].h > key) THEN sortSearch(l, key, m + 1, j)
                                    ELSE sortSearch(l, key, i, m)
    ELSE i

\* l with el placed at the 0-based index
placeAt(l, el, index) ==
    [list |-> SubSeq(l, 1, index) \o <<el>> \o SubSeq(l, index + 1, Len(l)),
     index |-> index]

\* entryList.insert(el): the list with el placed, and the 0-based index it got
listInsert(l, el) == placeAt(l, el, sortSearch(l, el.h, 0, Len(l)))

\* append(s[:ind], s[ind+1:]...), ind 0-based
removeAt(l, ind) == SubSeq(l, 1, ind) \o SubSeq(l, ind + 2, Len(l))

----------------------------------------------------------------------------
(* Nodes *)

newNode(min, max) ==
    [min |-> min, max |-> max, parent |-> Nil, left |-> Nil, right |-> Nil,
     leaf |-> FALSE, entries |-> <<>>, lhv |-> 0, bb |-> NilRect]

Panic(s) == [s EXCEPT !.panic = TRUE]

\* e.getMBR(): the entry's own box for a leaf entry, the child's cached box otherwise
getMBR(s, e) == IF e.leaf THEN e.bb ELSE s.nodes[e.node].bb

\* n.adjustLHV(): lhv only ever grows here; it reads entry.h, which is 0 for entry{node: n}
RECURSIVE lhvLoop(_, _, _)
lhvLoop(es, i, lhv) ==
    IF i > Len(es) THEN lhv
    ELSE lhvLoop(es, i + 1, IF es[i].h > lhv THEN es[i].h ELSE lhv)

adjustLHV(s, n) ==
    IF s.panic THEN s
    ELSE [s EXCEPT !.nodes[n].lhv = lhvLoop(s.nodes[n].entries, 1, @)]

\* n.adjustMBR(): the union of the entries' boxes, the zero Rect for no entries;
\* dereferencing a nil box panics
RECURSIVE mbrLoop(_, _, _, _)
mbrLoop(s, es, i, bb) ==
    IF i > Len(es) THEN bb
    ELSE mbrLoop(s, es, i + 1, IF i = 1 THEN getMBR(s, es[i]) ELSE enlarge(bb, getMBR(s, es[i])))

adjustMBR(s, n) ==
    IF s.panic THEN s
    ELSE LET es == s.nodes[n].entries
         IN  IF \E i \in 1..Len(es) : getMBR(s, es[i]) = NilRect THEN Panic(s)
             ELSE [s EXCEPT !.nodes[n].bb = mbrLoop(s, es, 1, ZeroRect)]

isOverflow(s, n) == Len(s.nodes[n].entries) = s.nodes[n].max

isUnderflow(s, n) == Len(s.nodes[n].entries) < s.nodes[n].max

\* n.getSiblings(siblingsNum): n and the nodes to its right, siblingsNum at most
RECURSIVE getSiblingsLoop(_, _, _, _)
getSiblingsLoop(s, ns, right, siblingsNum) ==
    IF Len(ns) < siblingsNum /\ right # Nil
    THEN getSiblingsLoop(s, Append(ns, right), s.nodes[right].right, siblingsNum)
    ELSE ns

getSiblings(s, n, siblingsNum) == getSiblingsLoop(s, <<n>>, s.nodes[n].right, siblingsNum)

\* the index a removeLeaf that stopped at its first match would settle on
RECURSIVE matchIndexFirst(_, _, _, _)
matchIndexFirst(es, r, i, ind) ==
    IF i > Len(es) THEN ind
    ELSE IF ind < 0 /\ equal(Bounds(es[i].obj), r) THEN i - 1
    ELSE matchIndexFirst(es, r, i + 1, ind)

\* the index removeLeaf settles on: ind is overwritten by every match, so the last one
RECURSIVE matchIndex(_, _, _, _)
matchIndex(es, r, i, ind) ==
    IF i > Len(es) THEN ind
    ELSE matchIndex(es, r, i + 1, IF equal(Bounds(es[i].obj), r) THEN i - 1 ELSE ind)

\* n.removeLeaf(obj) -> [s, ok]
removeLeaf(s, n, obj) ==
    IF s.panic THEN [s |-> s, ok |-> FALSE]
    ELSE IF ~s.nodes[n].leaf THEN [s |-> Panic(s), ok |-> FALSE]
    ELSE LET ind == matchIndex(s.nodes[n].entries, Bounds(obj), 1, -1)
         IN  IF ind < 0 THEN [s |-> s, ok |-> FALSE]
             ELSE [s |-> [s EXCEPT !.nodes[n].entries = removeAt(@, ind)], ok |-> TRUE]

RECURSIVE nodeIndex(_, _, _, _)
nodeIndex(es, c, i, ind) ==
    IF i > Len(es) THEN ind
    ELSE nodeIndex(es, c, i + 1, IF es[i].node = c THEN i - 1 ELSE ind)

\* n.removeNonLeaf(node): the result is not used by the callers
removeNonLeaf(s, n, c) ==
    IF s.panic THEN s
    ELSE IF n = Nil THEN Panic(s)
    ELSE IF s.nodes[n].leaf THEN Panic(s)
    ELSE LET ind == nodeIndex(s.nodes[n].entries, c, 1, -1)
         IN  IF ind < 0 THEN s
             ELSE [s EXCEPT !.nodes[n].entries = removeAt(@, ind)]

\* n.insertLeaf(e) without the check of isOverflow
insertLeafUnchecked(s, n, e) ==
    IF s.panic THEN s
    ELSE IF ~s.nodes[n].leaf THEN Panic(s)
    ELSE [s EXCEPT !.nodes[n].entries = listInsert(@, e).list]

\* n.insertLeaf(e)
insertLeaf(s, n, e) ==
    IF s.panic THEN s
    ELSE IF ~s.nodes[n].leaf THEN Panic(s)
    ELSE IF isOverflow(s, n) THEN Panic(s)
    ELSE [s EXCEPT !.nodes[n].entries = listInsert(@, e).list]

\* if prev != nil { prev.right = c }
setRight(s, prev, c) == IF prev # Nil THEN [s EXCEPT !.nodes[prev].right = c] ELSE s

\* if next != nil { next.left = c }
setLeft(s, next, c) == IF next # Nil THEN [s EXCEPT !.nodes[next].left = c] ELSE s

\* the linking half of insertNonLeaf: child c, placed at index it of the list es of
\* n, gets n as parent and is linked between the children held by the entries
\* before and after it
placeChild(s, n, c, es, it) ==
    setLeft([setRight([s EXCEPT !.nodes[n].entries = es,
                                !.nodes[c].parent = n,
                                !.nodes[c].left = IF es[it + 1] # es[1] THEN es[it].node ELSE Nil],
                      IF es[it + 1] # es[1] THEN es[it].node ELSE Nil, c)
                EXCEPT !.nodes[c].right = IF it # Len(es) - 1 THEN es[it + 2].node ELSE Nil],
            IF it # Len(es) - 1 THEN es[it + 2].node ELSE Nil, c)

insertNonLeafAt(s, n, e, r) == placeChild(s, n, e.node, r.list, r.index)

\* n.insertNonLeaf(e)
insertNonLeaf(s, n, e) ==
    IF s.panic THEN s
    ELSE IF s.nodes[n].leaf THEN Panic(s)
    ELSE IF isOverflow(s, n) THEN Panic(s)
    ELSE insertNonLeafAt(s, n, e, listInsert(s.nodes[n].entries, e))

\* n.reset()
reset(s, n) ==
    [s EXCEPT !.nodes[n].entries = <<>>, !.nodes[n].bb = NilRect, !.nodes[n].lhv = 0]

----------------------------------------------------------------------------
(* Overflow, underflow and redistribution *)

\* math.Ceil(float64(a) / float64(b)) for b > 0
ceilDiv(a, b) == (a + b - 1) \div b

\* n.insertLeaf(ee) or n.insertNonLeaf(ee), as ee.leaf says
insertEntry(s, sib, ee) ==
    IF ee.leaf THEN insertLeaf(s, sib, ee) ELSE insertNonLeaf(s, sib, ee)

\* the inner loop of redistributeEntries for one sibling: entries from index i on
\* go to sib until a batch is complete; -> [s, currentBatch, j]
RECURSIVE fillSibling(_, _, _, _, _, _, _)
RECURSIVE fillNext(_, _, _, _, _, _, _)
fillSibling(s, entries, sib, i, currentBatch, batchSize, j) ==
    IF s.panic \/ i >= Len(entries) THEN [s |-> s, currentBatch |-> currentBatch, j |-> j]
    ELSE fillNext(insertEntry(s, sib, entries[i + 1]), entries, sib, i,
                  currentBatch + 1, batchSize, j)

\* currentBatch++; if currentBatch == batchSize { currentBatch = 0; j = i + 1; break }
fillNext(s, entries, sib, i, currentBatch, batchSize, j) ==
    IF currentBatch = batchSize
    THEN [s |-> s, currentBatch |-> 0, j |-> i + 1]
    ELSE fillSibling(s, entries, sib, i + 1, currentBatch, batchSize, j)

\* the outer loop of redistributeEntries over the siblings
RECURSIVE redistributeLoop(_, _, _, _, _, _, _)
RECURSIVE redistributeNext(_, _, _, _, _)
redistributeLoop(s, entries, siblings, k, currentBatch, batchSize, j) ==
    IF s.panic \/ k > Len(siblings) THEN s
    ELSE redistributeNext(fillSibling(s, entries, siblings[k], j, currentBatch, batchSize, j),
                          entries, siblings, k, batchSize)

\* sib.adjustLHV(); sib.adjustMBR(), then the next sibling
redistributeNext(f, entries, siblings, k, batchSize) ==
    redistributeLoop(adjustMBR(adjustLHV(f.s, siblings[k]), siblings[k]),
                     entries, siblings, k + 1, f.currentBatch, batchSize, f.j)

\* redistributeEntries(entries, siblings); with no sibling the loop body never runs
\* and the entries are dropped
redistributeEntries(s, entries, siblings) ==
    IF Len(siblings) = 0 THEN s
    ELSE redistributeLoop(s, entries, siblings, 1, 0, ceilDiv(Len(entries), Len(siblings)), 0)

\* the pooling loop of handleOverflow and handleUnderflow: every entry of every
\* cohort node goes into the ordered pool and the node is reset; -> [s, pool]
RECURSIVE poolEntries(_, _, _)
poolEntries(l, es, i) ==
    IF i > Len(es) THEN l ELSE poolEntries(listInsert(l, es[i]).list, es, i + 1)

RECURSIVE poolNodes(_, _, _, _)
poolNodes(s, ns, k, pool) ==
    IF k > Len(ns) THEN [s |-> s, pool |-> pool]
    ELSE poolNodes(reset(s, ns[k]), ns, k + 1, poolEntries(pool, s.nodes[ns[k]].entries, 1))

\* targetPos: the last position of n in the cohort (0-based)
RECURSIVE targetPosOf(_, _, _, _)
targetPosOf(ns, n, k, pos) ==
    IF k > Len(ns) THEN pos
    ELSE targetPosOf(ns, n, k + 1, IF ns[k] = n THEN k - 1 ELSE pos)

\* the last step of handleOverflow and handleUnderflow: the pool c.pool goes to the
\* cohort c.nodes; -> [s, nn, nodes]
redistributeTo(c) ==
    [s |-> redistributeEntries(c.s, c.pool, c.nodes), nn |-> c.nn, nodes |-> c.nodes]

\* the split of handleOverflow: a new node nn (the next free address) of e's kind
\* is linked in to the left of n and enters the cohort at n's position
splitCohort(s, pool, n, e, ns, targetPos) ==
    [s |-> [setRight([s EXCEPT !.nodes = Append(@, [newNode(s.nodes[n].min, s.nodes[n].max)
                                                     EXCEPT !.leaf = e.leaf,
                                                            !.left = s.nodes[n].left])],
                     s.nodes[n].left, Len(s.nodes) + 1)
            EXCEPT !.nodes[Len(s.nodes) + 1].right = n,
                   !.nodes[n].left = Len(s.nodes) + 1],
     pool |-> pool,
     nn |-> Len(s.nodes) + 1,
     nodes |-> SubSeq(ns, 1, targetPos) \o << Len(s.nodes) + 1 >> \o SubSeq(ns, targetPos + 1, Len(ns))]

\* handleOverflow splitting already when the pool fills the cohort exactly
overflowPooledEager(p, n, e, ns) ==
    redistributeTo(IF Len(p.pool) >= Len(ns) * p.s.nodes[n].max
                   THEN splitCohort(p.s, p.pool, n, e, ns, targetPosOf(ns, n, 1, 0))
                   ELSE [s |-> p.s, pool |-> p.pool, nn |-> Nil, nodes |-> ns])

\* handleOverflow once the cohort ns is pooled into p
overflowPooled(p, n, e, ns) ==
    redistributeTo(IF Len(p.pool) > Len(ns) * p.s.nodes[n].max
                   THEN splitCohort(p.s, p.pool, n, e, ns, targetPosOf(ns, n, 1, 0))
                   ELSE [s |-> p.s, pool |-> p.pool, nn |-> Nil, nodes |-> ns])

overflowCohort(s, n, e, ns) ==
    overflowPooled(poolNodes(s, ns, 1, listInsert(<<>>, e).list), n, e, ns)

\* handleOverflow(n, e, nodes) -> [s, nn, nodes]
handleOverflow(s, n, e) ==
    IF s.panic THEN [s |-> s, nn |-> Nil, nodes |-> <<>>]
    ELSE overflowCohort(s, n, e, getSiblings(s, n, SiblingsNumber))

\* the removal of handleUnderflow: the leftmost cohort node nn is unlinked from
\* its level's chain and leaves the cohort
dropLeftmost(s, pool, nn, ns) ==
    [s |-> setLeft(setRight(s, s.nodes[nn].left, s.nodes[nn].right),
                   s.nodes[nn].right, s.nodes[nn].left),
     pool |-> pool,
     nn |-> nn,
     nodes |-> Tail(ns)]

\* handleUnderflow removing a node of a short cohort even when target has no parent
underflowPooledAnywhere(p, minChildren, target, ns) ==
    redistributeTo(IF Len(p.pool) < Len(ns) * minChildren
                   THEN dropLeftmost(p.s, p.pool, ns[1], ns)
                   ELSE [s |-> p.s, pool |-> p.pool, nn |-> Nil, nodes |-> ns])

\* handleUnderflow once the cohort ns is pooled into p
underflowPooled(p, minChildren, target, ns) ==
    redistributeTo(IF Len(p.pool) < Len(ns) * minChildren /\ p.s.nodes[target].parent # Nil
                   THEN dropLeftmost(p.s, p.pool, ns[1], ns)
                   ELSE [s |-> p.s, pool |-> p.pool, nn |-> Nil, nodes |-> ns])

underflowCohort(s, minChildren, target, ns) ==
    underflowPooled(poolNodes(s, ns, 1, <<>>), minChildren, target, ns)

\* tree.handleUnderflow(target, nodes) -> [s, nn, nodes]
handleUnderflow(s, minChildren, target) ==
    IF s.panic THEN [s |-> s, nn |-> Nil, nodes |-> <<>>]
    ELSE underflowCohort(s, minChildren, target, getSiblings(s, target, SiblingsNumber + 1))

----------------------------------------------------------------------------
(* Insert *)

\* the recursion and loop budget of one call: a descent or climb longer than this
\* visits some node twice and so never ends in the program
Fuel(s) == 2 * Len(s.nodes) + 4

\* the scan of chooseNode over n's entries: the child to descend into, Nil when
\* n has no entry (last.node of the zero entry)
RECURSIVE chooseEntry(_, _, _, _, _)
chooseEntry(s, es, i, h, last) ==
    IF i > Len(es) THEN last
    ELSE IF ~es[i].leaf
         THEN IF s.nodes[es[i].node].lhv >= h THEN es[i].node
              ELSE chooseEntry(s, es, i + 1, h, es[i].node)
         ELSE chooseEntry(s, es, i + 1, h, last)

\* tree.chooseNode(n, h): the leaf for Hilbert value h; Nil stands for the panic of
\* dereferencing a nil node and for a descent that never ends
RECURSIVE chooseNode(_, _, _, _)
chooseNode(s, n, h, fuel) ==
    IF n = Nil \/ fuel = 0 THEN Nil
    ELSE IF s.nodes[n].leaf THEN n
    ELSE chooseNode(s, chooseEntry(s, s.nodes[n].entries, 1, h, Nil), h, fuel - 1)

\* for _, node := range s { node.parent.adjustLHV(); node.parent.adjustMBR() }
RECURSIVE adjustParents(_, _, _)
adjustParents(s, sl, k) ==
    IF s.panic \/ k > Len(sl) THEN s
    ELSE LET p == s.nodes[sl[k]].parent
         IN  IF p = Nil THEN Panic(s)
             ELSE adjustParents(adjustMBR(adjustLHV(s, p), p), sl, k + 1)

\* n.adjustLHV(); n.adjustMBR()
adjust(s, n) == adjustMBR(adjustLHV(s, n), n)

\* the root step of adjustTreeForInsert: a root that was split gets a new root
\* (the next free address) above it and its new sibling
growRoot(s, minC, maxC, n, nn) ==
    [s |-> adjust(insertNonLeaf(insertNonLeaf([s EXCEPT !.nodes = Append(@, newNode(minC, maxC))],
                                              Len(s.nodes) + 1, nodeEntry(n)),
                                Len(s.nodes) + 1, nodeEntry(nn)),
                  Len(s.nodes) + 1),
     newRoot |-> Len(s.nodes) + 1]

\* pp, newSiblings = tree.handleOverflow(np, enn, newSiblings)
overflowStep(ho) == [s |-> ho.s, pp |-> ho.nn, newSiblings |-> ho.nodes]

\* one level of adjustTreeForInsert above n: the split-off node nn, if any, enters
\* the parent np; -> [s, pp, newSiblings]
parentStep(s, np, nn, pp, newSiblings) ==
    IF nn # Nil /\ isOverflow(s, np)
    THEN overflowStep(handleOverflow(s, np, nodeEntry(nn)))
    ELSE [s |-> IF nn # Nil THEN adjust(insertNonLeaf(s, np, nodeEntry(nn)), np) ELSE s,
          pp |-> pp,
          newSiblings |-> Append(newSiblings, np)]

\* tree.adjustTreeForInsert(root, n, nn, siblings) -> [s, newRoot]; pp is declared
\* outside the loop and keeps its value from one level to the next
RECURSIVE adjustTreeForInsertLoop(_, _, _, _, _, _, _, _, _, _)
RECURSIVE climbInsert(_, _, _, _, _, _, _)
adjustTreeForInsertLoop(s, minC, maxC, rt, n, nn, pp, newSiblings, sl, fuel) ==
    IF s.panic THEN [s |-> s, newRoot |-> rt]
    ELSE IF fuel = 0 THEN [s |-> Panic(s), newRoot |-> rt]
    ELSE IF s.nodes[n].parent = Nil
         THEN IF nn # Nil THEN growRoot(s, minC, maxC, n, nn)
              ELSE [s |-> adjust(s, rt), newRoot |-> rt]
         ELSE climbInsert(parentStep(s, s.nodes[n].parent, nn, pp, newSiblings),
                          minC, maxC, rt, s.nodes[n].parent, sl, fuel)

\* the end of one level: the parents of the touched siblings are adjusted, then
\* n = np; nn = pp; s = newSiblings
climbInsert(r, minC, maxC, rt, np, sl, fuel) ==
    adjustTreeForInsertLoop(adjustParents(r.s, sl, 1), minC, maxC, rt,
                            np, r.pp, r.pp, r.newSiblings, r.newSiblings, fuel - 1)

adjustTreeForInsert(s, minC, maxC, rt, n, nn, siblings) ==
    adjustTreeForInsertLoop(s, minC, maxC, rt, n, nn, Nil, <<>>, siblings, Fuel(s))

\* an insert whose first half goes by handleOverflow whether the leaf is full or not
placeInLeafPooled(s, leaf, e) == handleOverflow(s, leaf, e)

\* insert's first half: the entry goes into the leaf, by handleOverflow when the
\* leaf is full; -> [s, nn, nodes]
placeInLeaf(s, leaf, e) ==
    IF ~isOverflow(s, leaf)
    THEN [s |-> adjust(insertLeaf(s, leaf, e), leaf), nn |-> Nil, nodes |-> <<leaf>>]
    ELSE handleOverflow(s, leaf, e)

\* tree.root = tree.adjustTreeForInsert(...), unless the call panicked
rootAfter(a, rt) == [s |-> a.s, root |-> IF a.s.panic THEN rt ELSE a.newRoot]

insertAdjust(r, minC, maxC, rt, leaf) ==
    rootAfter(adjustTreeForInsert(r.s, minC, maxC, rt, leaf, r.nn, r.nodes), rt)

insertAt(s, minC, maxC, rt, e, leaf) ==
    IF leaf = Nil THEN [s |-> Panic(s), root |-> rt]
    ELSE insertAdjust(placeInLeaf(s, leaf, e), minC, maxC, rt, leaf)

\* tree.insert(e) -> [s, root]
insert(s, minC, maxC, rt, e) ==
    insertAt(s, minC, maxC, rt, e, chooseNode(s, rt, e.h, Fuel(s)))

\* tree.size++, unless the call panicked
sizeAfterInsert(r, sz) == [s |-> r.s, root |-> r.root, size |-> IF r.s.panic THEN sz ELSE sz + 1]

\* the Hilbert value Insert gives obj: Encode of the uint64 centre coordinates
hilbertOf(p) == Encode(p[1], p[2])

\* tree.Insert(obj) -> [s, root, size]
InsertCall(s, minC, maxC, rt, sz, obj) ==
    sizeAfterInsert(insert(s, minC, maxC, rt, leafEntry(obj, hilbertOf(ToCenter(Bounds(obj))))), sz)

----------------------------------------------------------------------------
(* Delete *)

hasEqualEntry(s, leaf, obj) ==
    \E k \in 1..Len(s.nodes[leaf].entries) :
        equal(Bounds(s.nodes[leaf].entries[k].obj), Bounds(obj))

\* tree.findLeaf(n, obj) -> [panic, leaf]: descent by containment, match by equal
RECURSIVE findLeaf(_, _, _, _)
RECURSIVE findLeafLoop(_, _, _, _, _)
findLeaf(s, n, obj, fuel) ==
    IF fuel = 0 THEN [panic |-> TRUE, leaf |-> Nil]
    ELSE IF s.nodes[n].leaf THEN [panic |-> FALSE, leaf |-> n]
    ELSE findLeafLoop(s, s.nodes[n].entries, 1, obj, fuel)

findLeafLoop(s, es, i, obj, fuel) ==
    IF i > Len(es) THEN [panic |-> FALSE, leaf |-> Nil]
    ELSE IF getMBR(s, es[i]) = NilRect THEN [panic |-> TRUE, leaf |-> Nil]
    ELSE IF contains(getMBR(s, es[i]), Bounds(obj))
         THEN LET r == findLeaf(s, es[i].node, obj, fuel - 1)
              IN  IF r.panic THEN r
                  ELSE IF r.leaf # Nil /\ hasEqualEntry(s, r.leaf, obj) THEN r
                  ELSE findLeafLoop(s, es, i + 1, obj, fuel)
         ELSE findLeafLoop(s, es, i + 1, obj, fuel)

RECURSIVE insertAll(_, _, _, _, _)
insertAll(s, n, data, k, asLeaf) ==
    IF s.panic \/ k > Len(data) THEN s
    ELSE insertAll(IF asLeaf THEN insertLeaf(s, n, data[k]) ELSE insertNonLeaf(s, n, data[k]),
                   n, data, k + 1, asLeaf)

\* the root step of adjustTreeForRemove once the root's only child is known: the
\* root takes over the child's entries and, for a leaf child, the leaf flag
adoptChild(s, n, mainEntry) ==
    insertAll(reset(IF s.nodes[mainEntry].leaf THEN [s EXCEPT !.nodes[n].leaf = TRUE] ELSE s, n),
              n, s.nodes[mainEntry].entries, 1, s.nodes[mainEntry].leaf)

\* a root step of adjustTreeForRemove that never collapses the root
collapseRootSkipped(s, n) == s

\* the root step of adjustTreeForRemove: an internal root with exactly one entry
\* collapses into its child
collapseRoot(s, n) ==
    IF Len(s.nodes[n].entries) = 1 /\ ~s.nodes[n].leaf
    THEN adoptChild(s, n, s.nodes[n].entries[1].node)
    ELSE s

\* dnParent.removeNonLeaf(nn) done: an underflowing dnParent goes to
\* handleUnderflow, any other joins the touched siblings; -> [s, nn, nodes]
afterRemoveNonLeaf(s1, minC, dnParent, newSiblings) ==
    IF s1.panic THEN [s |-> s1, nn |-> Nil, nodes |-> newSiblings]
    ELSE IF Len(s1.nodes[dnParent].entries) < minC
         THEN handleUnderflow(s1, minC, dnParent)
         ELSE [s |-> s1, nn |-> Nil, nodes |-> Append(newSiblings, dnParent)]

\* one level of adjustTreeForRemove: the removed node nn, if any, leaves its
\* parent; -> [s, nn, nodes]
removeStep(s, minC, nn, newSiblings) ==
    IF nn # Nil
    THEN afterRemoveNonLeaf(removeNonLeaf(s, s.nodes[nn].parent, nn), minC,
                            s.nodes[nn].parent, newSiblings)
    ELSE [s |-> s, nn |-> Nil, nodes |-> newSiblings]

\* tree.adjustTreeForRemove(n, nn, siblings)
RECURSIVE adjustTreeForRemoveLoop(_, _, _, _, _, _, _)
RECURSIVE climbRemove(_, _, _, _, _)
adjustTreeForRemoveLoop(s, minC, n, nn, newSiblings, sl, fuel) ==
    IF s.panic THEN s
    ELSE IF fuel = 0 THEN Panic(s)
    ELSE IF s.nodes[n].parent = Nil
         THEN adjust(collapseRoot(s, n), n)
         ELSE climbRemove(removeStep(s, minC, nn, newSiblings), minC, s.nodes[n].parent, sl, fuel)

\* the end of one level: np joins the touched siblings, the parents of the old
\* ones are adjusted, then n = np; nn = dparent; s = newSiblings
climbRemove(r, minC, np, sl, fuel) ==
    adjustTreeForRemoveLoop(adjustParents(r.s, sl, 1), minC, np, r.nn,
                            Append(r.nodes, np), Append(r.nodes, np), fuel - 1)

adjustTreeForRemove(s, minC, n, nn, siblings) ==
    adjustTreeForRemoveLoop(s, minC, n, nn, <<>>, siblings, Fuel(s))

\* the leaf lost an entry: handleUnderflow if it is now short; -> [s, nn, nodes]
underflowStep(s, minC, leaf) ==
    IF Len(s.nodes[leaf].entries) < minC
    THEN handleUnderflow(s, minC, leaf)
    ELSE [s |-> s, nn |-> Nil, nodes |-> <<>>]

deleted(a, sz) == [s |-> a, ok |-> ~a.panic, size |-> sz - 1]

deleteAdjust(u, minC, leaf, sz) ==
    deleted(adjustTreeForRemove(u.s, minC, leaf, u.nn, u.nodes), sz)

\* Delete from leaf.removeLeaf(obj) on: tree.size-- comes before the adjustment
deleteRemoved(rm, minC, leaf, sz) ==
    IF ~rm.ok THEN [s |-> rm.s, ok |-> FALSE, size |-> sz]
    ELSE deleteAdjust(underflowStep(rm.s, minC, leaf), minC, leaf, sz)

\* Delete from the result f of findLeaf on
deleteFound(s, minC, sz, obj, f) ==
    IF f.panic THEN [s |-> Panic(s), ok |-> FALSE, size |-> sz]
    ELSE IF f.leaf = Nil THEN [s |-> s, ok |-> FALSE, size |-> sz]
    ELSE deleteRemoved(removeLeaf(s, f.leaf, obj), minC, f.leaf, sz)

\* tree.Delete(obj) -> [s, ok, size]
DeleteCall(s, minC, rt, sz, obj) ==
    deleteFound(s, minC, sz, obj, findLeaf(s, rt, obj, Fuel(s)))

----------------------------------------------------------------------------
(* Search *)

\* tree.searchIntersect(n, bb, results) -> [panic, results]
RECURSIVE searchIntersect(_, _, _, _, _)
RECURSIVE searchLoop(_, _, _, _, _, _, _)
searchIntersect(ns, n, bb, results, fuel) ==
    IF fuel = 0 THEN [panic |-> TRUE, results |-> results]
    ELSE searchLoop(ns, n, 1, bb, results, fuel, FALSE)

searchLoop(ns, n, i, bb, results, fuel, stop) ==
    IF stop \/ i > Len(ns[n].entries) THEN [panic |-> stop, results |-> results]
    ELSE LET e == ns[n].entries[i]
             mbr == IF e.leaf THEN e.bb ELSE ns[e.node].bb
         IN  IF mbr = NilRect THEN [panic |-> TRUE, results |-> results]
             ELSE IF intersect(mbr, bb)
                  THEN IF ns[n].leaf
                       THEN searchLoop(ns, n, i + 1, bb, Append(results, e.obj), fuel, FALSE)
                       ELSE LET r == searchIntersect(ns, e.node, bb, results, fuel - 1)
                            IN  searchLoop(ns, n, i + 1, bb, r.results, fuel, r.panic)
                  ELSE searchLoop(ns, n, i + 1, bb, results, fuel, FALSE)

\* tree.SearchIntersect(bb) on the tree (rt, ns)
SearchIntersect(ns, rt, bb) == searchIntersect(ns, rt, bb, <<>>, 2 * Len(ns) + 4)

----------------------------------------------------------------------------
(* Nearest neighbour.  A distance is kept as its square: math.Sqrt is strictly *)
(* increasing on the integers that occur here, so every comparison of two     *)
(* distances comes out as the comparison of their squares.                    *)

\* math.MaxFloat64, the distance nearestNeighbor starts from: above every
\* distance between a point and a rectangle of the model
MaxFloat64 == 1000000

\* the points NearestNeighbor is asked about
Points == { <<0, 0>>, <<1, 1>>, <<2, 0>>, <<3, 3>> }

\* one axis of p.minDist(r)
axisDist(pi, lo, hi) ==
    IF pi < lo THEN (pi - lo) * (pi - lo)
    ELSE IF pi > hi THEN (pi - hi) * (pi - hi)
    ELSE 0

\* p.minDist(r): the square of the distance from p to r, 0 inside r
minDist(p, r) == axisDist(p[1], r.lower[1], r.upper[1]) + axisDist(p[2], r.lower[2], r.upper[2])

\* rm(k) and rM(k) of minMaxDist; p[k] <= (lower+upper)/2 is compared doubled
rm(p, r, k) == IF 2 * p[k] <= r.lower[k] + r.upper[k] THEN r.lower[k] ELSE r.upper[k]

rM(p, r, k) == IF 2 * p[k] >= r.lower[k] + r.upper[k] THEN r.lower[k] ELSE r.upper[k]

sq(x) == x * x

\* p.minMaxDist(r)
minMaxDist(p, r) ==
    LET S == sq(p[1] - rM(p, r, 1)) + sq(p[2] - rM(p, r, 2))
        d1 == S - sq(p[1] - rM(p, r, 1)) + sq(p[1] - rm(p, r, 1))
        d2 == S - sq(p[2] - rM(p, r, 2)) + sq(p[2] - rm(p, r, 2))
    IN  IF d2 < d1 THEN d2 ELSE d1

\* sort.Sort on a short slice is an insertion sort: el sinks below the sorted
\* entries whose distance is larger
RECURSIVE sinkEntry(_, _, _)
sinkEntry(sorted, el, j) ==
    IF j > 0 /\ el.dist < sorted[j].dist THEN sinkEntry(sorted, el, j - 1)
    ELSE SubSeq(sorted, 1, j) \o <<el>> \o SubSeq(sorted, j + 1, Len(sorted))

\* sortEntries(p, entries) -> the entries by ascending minDist, each with its
\* distance; it reads entry.bb, which is nil in entry{node: n}
RECURSIVE sortEntries(_, _, _, _)
sortEntries(p, es, i, sorted) ==
    IF i > Len(es) THEN [panic |-> FALSE, entries |-> sorted]
    ELSE IF es[i].bb = NilRect THEN [panic |-> TRUE, entries |-> sorted]
    ELSE sortEntries(p, es, i + 1,
                     sinkEntry(sorted, [e |-> es[i], dist |-> minDist(p, es[i].bb)], Len(sorted)))

\* the smallest minMaxDist over the entries
RECURSIVE minMinMaxDist(_, _, _, _)
minMinMaxDist(p, br, i, m) ==
    IF i > Len(br) THEN m
    ELSE minMinMaxDist(p, br, i + 1,
                       IF minMaxDist(p, br[i].e.bb) < m THEN minMaxDist(p, br[i].e.bb) ELSE m)

\* pruneEntries(p, entries, minDists): the entries with minDist <= minMinMaxDist
pruneEntries(p, br) ==
    SelectSeq(br, LAMBDA b : b.dist <= minMinMaxDist(p, br, 1, MaxFloat64))

\* the leaf loop of nearestNeighbor
RECURSIVE nearestInLeaf(_, _, _, _, _)
nearestInLeaf(p, es, i, d, nearest) ==
    IF i > Len(es) THEN [panic |-> FALSE, obj |-> nearest, d |-> d]
    ELSE IF minDist(p, es[i].bb) < d
         THEN nearestInLeaf(p, es, i + 1, minDist(p, es[i].bb), es[i].obj)
         ELSE nearestInLeaf(p, es, i + 1, d, nearest)

\* tree.nearestNeighbor(p, n, d, nearest) -> [panic, obj, d]
RECURSIVE nearestNeighbor(_, _, _, _, _, _)
RECURSIVE nearestInBranches(_, _, _, _, _, _, _)
RECURSIVE nearestNext(_, _, _, _, _, _, _, _)
nearestNeighbor(ns, p, n, d, nearest, fuel) ==
    IF fuel = 0 THEN [panic |-> TRUE, obj |-> nearest, d |-> d]
    ELSE IF ns[n].leaf THEN nearestInLeaf(p, ns[n].entries, 1, d, nearest)
    ELSE nearestInBranches(ns, p, sortEntries(p, ns[n].entries, 1, <<>>), 1, d, nearest, fuel)

\* the branch loop of nearestNeighbor over the sorted and pruned entries
nearestInBranches(ns, p, sorted, i, d, nearest, fuel) ==
    IF sorted.panic THEN [panic |-> TRUE, obj |-> nearest, d |-> d]
    ELSE IF i > Len(pruneEntries(p, sorted.entries)) THEN [panic |-> FALSE, obj |-> nearest, d |-> d]
    ELSE nearestNext(ns, p, sorted, i, d, nearest, fuel,
                     nearestNeighbor(ns, p, pruneEntries(p, sorted.entries)[i].e.node,
                                     d, nearest, fuel - 1))

\* if dist < d { d = dist; nearest = subNearest }
nearestNext(ns, p, sorted, i, d, nearest, fuel, sub) ==
    IF sub.panic THEN sub
    ELSE IF sub.d < d THEN nearestInBranches(ns, p, sorted, i + 1, sub.d, sub.obj, fuel)
    ELSE nearestInBranches(ns, p, sorted, i + 1, d, nearest, fuel)

\* tree.NearestNeighbor(p) on the tree (rt, ns) -> [panic, obj, d]
NearestNeighbor(ns, rt, p) == nearestNeighbor(ns, p, rt, MaxFloat64, NoObj, 2 * Len(ns) + 4)

----------------------------------------------------------------------------
(* The tree as a state machine *)

\* NewTree without `tree.root.leaf = true`: the root as newNode leaves it
NewTreeInternalRoot(minIn, maxIn, bits) ==
    IF hilbertNewFails(bits)
    THEN [err |-> TRUE, MinChildren |-> 0, MaxChildren |-> 0, root |-> Nil, nodes |-> <<>>]
    ELSE LET min1 == IF minIn < 0 THEN DefaultMinNodeEntries ELSE minIn
             max1 == IF maxIn < 0 THEN DefaultMaxNodeEntries ELSE maxIn
             max2 == IF max1 < min1 THEN max1 + 1 ELSE max1
         IN  [err |-> FALSE, MinChildren |-> min1, MaxChildren |-> max2, root |-> 1,
              nodes |-> << newNode(min1, max2) >>]

\* NewTree(MinChildren, MaxChildren, Bits) -> the tree, or err
NewTree(minIn, maxIn, bits) ==
    IF hilbertNewFails(bits)
    THEN [err |-> TRUE, MinChildren |-> 0, MaxChildren |-> 0, root |-> Nil, nodes |-> <<>>]
    ELSE LET min1 == IF minIn < 0 THEN DefaultMinNodeEntries ELSE minIn
             max1 == IF maxIn < 0 THEN DefaultMaxNodeEntries ELSE maxIn
             max2 == IF max1 < min1 THEN max1 + 1 ELSE max1
         IN  [err |-> FALSE, MinChildren |-> min1, MaxChildren |-> max2, root |-> 1,
              nodes |-> << [newNode(min1, max2) EXCEPT !.leaf = TRUE] >>]

\* the arguments <<min, max, bits>> the trees are built with
SpecConfigs == { <<1, 2, Bits>>, <<2, 2, Bits>> }

DrainConfigs == { <<1, 2, Bits>>, <<2, 2, Bits>>, <<2, 3, Bits>> }

NewConfigs == { <<mn, mx, b>> : mn \in {-1, 1, 3}, mx \in {-1, 1, 2}, b \in {0, Bits} }

\* the objects inserted under SpecDrain
DrainObjs == {1, 3}

\* no geom.go function has been called from outside the tree
NoGeom == [r1 |-> NilRect, r2 |-> NilRect, op |-> "none", res |-> FALSE]

\* the tree NewTree returns for one of the configurations, before any call on it
InitTree(configs) ==
    \E c \in configs :
        \E t \in {NewTree(c[1], c[2], c[3])} :
            /\ err = t.err
            /\ MinChildren = t.MinChildren
            /\ MaxChildren = t.MaxChildren
            /\ root = t.root
            /\ nodes = t.nodes
            /\ size = 0
            /\ panicked = FALSE
            /\ hist = <<>>
            /\ pre = [root |-> t.root, nodes |-> t.nodes, size |-> 0]
            /\ stored = <<>>

InitWith(configs) == InitTree(configs) /\ geom = NoGeom

\* seq without its first occurrence of object o
RECURSIVE dropFirst(_, _, _)
dropFirst(seq, o, i) ==
    IF i > Len(seq) THEN seq
    ELSE IF seq[i] = o THEN SubSeq(seq, 1, i - 1) \o SubSeq(seq, i + 1, Len(seq))
    ELSE dropFirst(seq, o, i + 1)

\* the heap as the calls thread it, before a call
Heap == [nodes |-> nodes, panic |-> FALSE]

\* what a Delete(o) settles on, given the leaf findLeaf returns (Nil for none):
\* that leaf, the object of the entry removeLeaf takes out of it, and the leaf's
\* entries as removeLeaf leaves them
targetIn(leaf, o, ind) ==
    [leaf |-> leaf,
     removed |-> IF ind < 0 THEN NoObj ELSE nodes[leaf].entries[ind + 1].obj,
     after |-> IF leaf = Nil THEN <<>> ELSE removeLeaf(Heap, leaf, o).s.nodes[leaf].entries]

targetOf(f, o) ==
    IF f.panic \/ f.leaf = Nil THEN targetIn(Nil, o, -1)
    ELSE targetIn(f.leaf, o, matchIndex(nodes[f.leaf].entries, Bounds(o), 1, -1))

DeleteTarget(o) == targetOf(findLeaf(Heap, root, o, Fuel(Heap)), o)

\* the leaf an Insert(o) on the current tree chooses
InsertTarget(o) == chooseNode(Heap, root, hilbertOf(ToCenter(Bounds(o))), Fuel(Heap))

\* a caller calls tree.Insert(o)
Insert(o) ==
    /\ ~err /\ ~panicked
    /\ \E r \in {InsertCall(Heap, MinChildren, MaxChildren, root, size, o)} :
           /\ nodes' = r.s.nodes
           /\ root' = r.root
           /\ size' = r.size
           /\ panicked' = r.s.panic
           /\ hist' = Append(hist, [op |-> "Insert", obj |-> o, ok |-> ~r.s.panic,
                                    leaf |-> InsertTarget(o), after |-> <<>>])
           /\ stored' = Append(stored, o)
    /\ pre' = [root |-> root, nodes |-> nodes, size |-> size]
    /\ UNCHANGED <<MinChildren, MaxChildren, err, geom>>

\* a caller calls tree.Delete(o)
Delete(o) ==
    /\ ~err /\ ~panicked
    /\ \E r \in {DeleteCall(Heap, MinChildren, root, size, o)}, t \in {DeleteTarget(o)} :
           /\ nodes' = r.s.nodes
           /\ size' = r.size
           /\ panicked' = r.s.panic
           /\ hist' = Append(hist, [op |-> "Delete", obj |-> o, ok |-> r.ok,
                                    leaf |-> t.leaf, after |-> t.after])
           /\ stored' = IF r.ok THEN dropFirst(stored, t.removed, 1) ELSE stored
    /\ pre' = [root |-> root, nodes |-> nodes, size |-> size]
    /\ UNCHANGED <<MinChildren, MaxChildren, err, root, geom>>

Init == InitWith(SpecConfigs)

InsertStep == \E o \in Objs : Len(hist) < MaxOps /\ Insert(o)

DeleteStep == \E o \in Objs : Len(hist) < MaxOps /\ Delete(o)

Next == InsertStep \/ DeleteStep

Spec == Init /\ [][Next]_vars

\* Inserts only, then Deletes of the inserted objects in insertion order
NumOp(h, op) == Cardinality({i \in 1..Len(h) : h[i].op = op})

InitDrain == InitWith(DrainConfigs)

DrainInsert ==
    \E o \in DrainObjs : NumOp(hist, "Delete") = 0 /\ Len(hist) < MaxInserts /\ Insert(o)

DrainDelete ==
    /\ NumOp(hist, "Delete") < NumOp(hist, "Insert")
    /\ Delete(hist[NumOp(hist, "Delete") + 1].obj)

NextDrain == DrainInsert \/ DrainDelete

SpecDrain == InitDrain /\ [][NextDrain]_vars

\* every argument combination of NewTree, and a few calls on what it returns
InitNew == InitWith(NewConfigs)

NewInsert == \E o \in Objs : Len(hist) < MaxOpsNew /\ Insert(o)

NewDelete == \E o \in Objs : Len(hist) < MaxOpsNew /\ Delete(o)

NextNew == NewInsert \/ NewDelete

SpecNew == InitNew /\ [][NextNew]_vars

\* a few Inserts, then as many Deletes at most, of any object in any order
InitShrink == InitWith(DrainConfigs)

ShrinkInsert ==
    \E o \in DrainObjs : NumOp(hist, "Delete") = 0 /\ Len(hist) < MaxShrink /\ Insert(o)

ShrinkDelete ==
    \E o \in DrainObjs : NumOp(hist, "Delete") < NumOp(hist, "Insert") /\ Delete(o)

NextShrink == ShrinkInsert \/ ShrinkDelete

SpecShrink == InitShrink /\ [][NextShrink]_vars

\* Inserts only, into a tree whose internal nodes have room left after a split
GrowConfigs == { <<2, 3, Bits>> }

InitGrow == InitWith(GrowConfigs)

GrowInsert == \E o \in DrainObjs : Len(hist) < MaxGrow /\ Insert(o)

NextGrow == GrowInsert

SpecGrow == InitGrow /\ [][NextGrow]_vars

\* the geom.go predicates called on every pair of rectangles with corners in
\* 0..MaxCoord, next to a tree that is left alone
Coords == 0..MaxCoord

Rects ==
    { [lower |-> <<lx, ly>>, upper |-> <<ux, uy>>] :
          lx \in Coords, ly \in Coords, ux \in Coords, uy \in Coords }

ValidRects == { r \in Rects : \A i \in Axes : r.lower[i] <= r.upper[i] }

InitGeom ==
    /\ InitTree({ <<1, 2, Bits>> })
    /\ \E a \in ValidRects, b \in ValidRects :
           geom = [r1 |-> a, r2 |-> b, op |-> "none", res |-> FALSE]

Called(op, res) ==
    /\ geom.op = "none"
    /\ geom' = [geom EXCEPT !.op = op, !.res = res]
    /\ UNCHANGED <<MinChildren, MaxChildren, root, size, nodes, err, panicked, hist, pre, stored>>

\* r1.equal(r2)
GeomEqual == Called("equal", equal(geom.r1, geom.r2))

\* intersect(r1, r2)
GeomIntersect == Called("intersect", intersect(geom.r1, geom.r2))

\* r1.contains(r2)
GeomContains == Called("contains", contains(geom.r1, geom.r2))

\* the slice of objects a search returned holds object o
Returned(results, o) == \E k \in 1..Len(results) : results[k] = o

\* tree.SearchIntersect(r2) on the tree once an object with the rectangle r1 has
\* been inserted into it: whether the object is returned
GeomSearch ==
    \E o \in Objs :
        /\ Bounds(o) = geom.r1
        /\ \E t \in {InsertCall(Heap, MinChildren, MaxChildren, root, size, o)} :
               Called("search", Returned(SearchIntersect(t.s.nodes, t.root, geom.r2).results, o))

NextGeom == GeomEqual \/ GeomIntersect \/ GeomContains \/ GeomSearch

SpecGeom == InitGeom /\ [][NextGeom]_vars

----------------------------------------------------------------------------
(* What callers can observe *)

\* the objects of the leaf entries reachable from entry i on of node n, in
\* traversal order
RECURSIVE reachable(_, _, _, _)
reachable(ns, n, i, fuel) ==
    IF fuel = 0 \/ i > Len(ns[n].entries) THEN <<>>
    ELSE (IF ns[n].leaf THEN << ns[n].entries[i].obj >>
          ELSE reachable(ns, ns[n].entries[i].node, 1, fuel - 1))
         \o reachable(ns, n, i + 1, fuel)

\* the objects of the leaf entries reachable from the root rt
LeafObjs(ns, rt) == reachable(ns, rt, 1, Len(ns))

Count(seq, o) == Cardinality({i \in 1..Len(seq) : seq[i] = o})

CountRect(seq, r) == Cardinality({i \in 1..Len(seq) : Bounds(seq[i]) = r})

\* the same objects, each as many times
SameObjects(s1, s2) == \A o \in Objs : Count(s1, o) = Count(s2, o)

\* the stored objects whose rectangle intersects q
Hits(q) == SelectSeq(stored, LAMBDA o : intersect(Bounds(o), q))

LastCall == hist[Len(hist)]

\* the last call was a Delete and it returned
DeleteReturned == ~err /\ ~panicked /\ Len(hist) > 0 /\ LastCall.op = "Delete"

\* the indices of the entries of es whose rectangle is exactly that of object o
TrueMatches(es, o) == {k \in 1..Len(es) : Bounds(es[k].obj) = Bounds(o)}

\* the indices of the entries of es that Rect.equal accepts against object o
EqualMatches(es, o) == {k \in 1..Len(es) : equal(Bounds(es[k].obj), Bounds(o))}

Least(S) == CHOOSE x \in S : \A y \in S : x <= y

Greatest(S) == CHOOSE x \in S : \A y \in S : x >= y

\* the last call was a Delete that returned, and several entries of the leaf it
\* found had the rectangle of its argument
SeveralEqual ==
    /\ DeleteReturned
    /\ LastCall.leaf # Nil
    /\ Cardinality(TrueMatches(pre.nodes[LastCall.leaf].entries, LastCall.obj)) >= 2

----------------------------------------------------------------------------
(* Properties of the specification *)

\* C1: after any sequence of Insert and Delete calls, SearchIntersect(q) returns
\* exactly the objects inserted and not yet removed by a Delete whose rectangle
\* intersects q, each as many times as it is stored
C1_SearchReturnsStored ==
    (~err /\ ~panicked) =>
        \A q \in Queries :
            LET r == SearchIntersect(nodes, root, q)
            IN  ~r.panic /\ SameObjects(r.results, Hits(q))

\* C2: on a tree built by Inserts alone, a search with a rectangle covering every
\* inserted object returns each inserted object exactly once per insertion
C2_InsertOnlyUniverse ==
    (~err /\ ~panicked /\ NumOp(hist, "Delete") = 0) =>
        LET r == SearchIntersect(nodes, root, Universe)
        IN  /\ ~r.panic
            /\ Len(r.results) = NumOp(hist, "Insert")
            /\ \A o \in Objs : Count(r.results, o) = Count(stored, o)

\* C3: Size() equals the number of leaf entries reachable from the root
C3_SizeCountsLeafEntries ==
    (~err /\ ~panicked) => size = Len(LeafObjs(nodes, root))

\* C4: an Insert(o) immediately followed by Delete(o) brings Size() back to what it
\* was before the Insert and leaves every search returning the same objects as
\* before the Insert
C4_InsertThenDelete ==
    [][ ( /\ Len(hist) > 0 /\ LastCall.op = "Insert"
          /\ Len(hist') = Len(hist) + 1
          /\ hist'[Len(hist')].op = "Delete"
          /\ hist'[Len(hist')].obj = LastCall.obj
          /\ ~panicked' )
        => ( /\ size' = pre.size
             /\ \A q \in Queries :
                    SameObjects(SearchIntersect(nodes', root', q).results,
                                SearchIntersect(pre.nodes, pre.root, q).results) ) ]_vars

\* C5: when no stored entry has the rectangle of obj, Delete(obj) returns false and
\* leaves Size() and the stored objects as they were
C5_DeleteAbsent ==
    (DeleteReturned /\ CountRect(LeafObjs(pre.nodes, pre.root), Bounds(LastCall.obj)) = 0) =>
        /\ ~LastCall.ok
        /\ size = pre.size
        /\ SameObjects(LeafObjs(nodes, root), LeafObjs(pre.nodes, pre.root))

\* C6: when some stored entry has the rectangle of obj, Delete(obj) returns true,
\* removes exactly one leaf entry with that rectangle and no other, and decreases
\* Size() by one
C6_DeletePresent ==
    (DeleteReturned /\ CountRect(LeafObjs(pre.nodes, pre.root), Bounds(LastCall.obj)) > 0) =>
        /\ LastCall.ok
        /\ size = pre.size - 1
        /\ \A o \in Objs :
               CountRect(LeafObjs(nodes, root), Bounds(o)) =
                   CountRect(LeafObjs(pre.nodes, pre.root), Bounds(o))
                   - (IF Bounds(o) = Bounds(LastCall.obj) THEN 1 ELSE 0)

\* C7: when several entries of the leaf Delete finds have the rectangle of obj,
\* Delete(obj) takes the first of them out of the leaf's entry list and keeps the
\* later ones
C7_DeleteRemovesFirstEqual ==
    SeveralEqual =>
        LET es == pre.nodes[LastCall.leaf].entries
        IN  LastCall.after = removeAt(es, Least(TrueMatches(es, LastCall.obj)) - 1)

\* C7 as the code has it: when several entries of the leaf Delete finds have the
\* rectangle of obj, Delete(obj) takes out of the leaf's entry list the last entry
\* that Rect.equal accepts against obj.Bounds(), which is at or after the last of
\* them, and removeLeaf keeps every other entry of the leaf in place
C7_DeleteRemovesLastEqual ==
    SeveralEqual =>
        LET es == pre.nodes[LastCall.leaf].entries
        IN  /\ LastCall.after = removeAt(es, Greatest(EqualMatches(es, LastCall.obj)) - 1)
            /\ Greatest(EqualMatches(es, LastCall.obj)) >= Greatest(TrueMatches(es, LastCall.obj))

\* a Delete found a leaf with several entries of its argument's rectangle, held by
\* different objects, and what it left differs from taking out the first of them
C7_Witness ==
    /\ SeveralEqual
    /\ LastCall.ok
    /\ LET es == pre.nodes[LastCall.leaf].entries
       IN  /\ LastCall.after # removeAt(es, Least(TrueMatches(es, LastCall.obj)) - 1)
           /\ Len(LastCall.after) = Len(es) - 1

\* C8: with MaxChildren >= MinChildren >= 1 no sequence of Insert and Delete calls
\* panics
C8_NoPanic ==
    (~err /\ MaxChildren >= MinChildren /\ MinChildren >= 1) => ~panicked

\* C9: NewTree fails when the maximum is below the minimum, so every tree it
\* returns has MaxChildren >= MinChildren
C9_NewTreeOrdersBounds ==
    ~err => MaxChildren >= MinChildren

\* C10: after N Inserts and then a Delete of each inserted object in insertion
\* order, the root is a leaf with no entries and Size() is 0
C10_DrainEmptiesTree ==
    (/\ ~err /\ ~panicked
     /\ Len(hist) > 0
     /\ NumOp(hist, "Delete") = NumOp(hist, "Insert")) =>
        /\ nodes[root].leaf
        /\ nodes[root].entries = <<>>
        /\ size = 0

\* the last call was an Insert (it returned unless panicked says otherwise)
InsertCalled == ~err /\ Len(hist) > 0 /\ LastCall.op = "Insert"

\* C11: every Insert(obj) returns, increases Size() by exactly 1 and adds one leaf
\* entry for obj and nothing else, whether or not an entry with the same rectangle
\* or the same object is already stored; a search with obj's rectangle then returns
\* obj once more than before
C11_InsertUnconditional ==
    InsertCalled =>
        /\ ~panicked
        /\ size = pre.size + 1
        /\ \A o \in Objs :
               Count(LeafObjs(nodes, root), o) =
                   Count(LeafObjs(pre.nodes, pre.root), o) + (IF o = LastCall.obj THEN 1 ELSE 0)
        /\ Count(SearchIntersect(nodes, root, Bounds(LastCall.obj)).results, LastCall.obj) =
               Count(SearchIntersect(pre.nodes, pre.root, Bounds(LastCall.obj)).results,
                     LastCall.obj) + 1

\* the squared distance from p to the closest leaf entry reachable from the root
Closest(p) ==
    Least({ minDist(p, Bounds(LeafObjs(nodes, root)[k])) : k \in 1..Len(LeafObjs(nodes, root)) })

\* r, the result of NearestNeighbor(p), is an object of the tree closest to p
IsNearest(p, r) ==
    /\ ~r.panic
    /\ r.obj # NoObj
    /\ Count(LeafObjs(nodes, root), r.obj) > 0
    /\ minDist(p, Bounds(r.obj)) = Closest(p)

\* C12: on every non-empty tree, with a leaf or an internal root, NearestNeighbor(p)
\* returns a stored object whose rectangle is at the minimum distance from p among
\* the stored objects
C12_NearestIsClosest ==
    (~err /\ ~panicked /\ Len(LeafObjs(nodes, root)) > 0) =>
        \A p \in Points : IsNearest(p, NearestNeighbor(nodes, root, p))

\* C13: equal(a, b) is true exactly when a and b have the same lower and the same
\* upper coordinate on every axis
C13_EqualAllCorners ==
    geom.op = "equal" =>
        (geom.res <=> \A i \in Axes : /\ geom.r1.lower[i] = geom.r2.lower[i]
                                      /\ geom.r1.upper[i] = geom.r2.upper[i])

\* the two rectangles share boundary points only: on some axis one ends where
\* the other begins
Touching(a, b) ==
    /\ \A i \in Axes : a.lower[i] <= b.upper[i] /\ a.upper[i] >= b.lower[i]
    /\ \E i \in Axes : a.lower[i] = b.upper[i] \/ a.upper[i] = b.lower[i]

\* C14: intersect(a, b) is true exactly when a.lower[i] <= b.upper[i] and
\* a.upper[i] >= b.lower[i] on every axis i; in particular it is true of two
\* rectangles that only touch on an edge or a corner, and SearchIntersect(b)
\* returns a stored object with the rectangle a exactly in those cases
C14_IntersectTouching ==
    geom.op \in {"intersect", "search"} =>
        /\ geom.res <=> \A i \in Axes : /\ geom.r1.lower[i] <= geom.r2.upper[i]
                                        /\ geom.r1.upper[i] >= geom.r2.lower[i]
        /\ Touching(geom.r1, geom.r2) => geom.res

\* SearchIntersect was asked for a rectangle that meets the one stored object in
\* a single corner point, and returned the object
C14_Witness ==
    /\ geom.op = "search"
    /\ geom.r1 = [lower |-> <<0, 0>>, upper |-> <<2, 2>>]
    /\ geom.r2.lower = <<2, 2>>
    /\ geom.res

\* every search on the tree returns without a result
SearchesEmpty ==
    \A q \in Queries : SearchIntersect(nodes, root, q) = [panic |-> FALSE, results |-> <<>>]

\* C15: a tree just returned by NewTree has Size() = 0 and a root that is a leaf
\* with zero entries; every SearchIntersect on it returns an empty result, and a
\* Delete of any object returns false and leaves the tree as it was
C15_FreshTreeEmpty ==
    /\ (~err /\ hist = <<>>) =>
           /\ size = 0
           /\ nodes[root].leaf
           /\ nodes[root].entries = <<>>
           /\ SearchesEmpty
    /\ (~err /\ Len(hist) = 1 /\ LastCall.op = "Delete") =>
           /\ ~panicked
           /\ ~LastCall.ok
           /\ size = 0
           /\ nodes = pre.nodes
           /\ SearchesEmpty

\* the first call on a tree NewTree returned was a Delete, and it came back
C15_Witness ==
    ~err /\ ~panicked /\ Len(hist) = 1 /\ LastCall.op = "Delete" /\ ~LastCall.ok

\* the nodes of the subtree of n: n and, below an internal node, the subtrees of
\* the children its entries hold
RECURSIVE nodesBelow(_, _, _)
nodesBelow(ns, n, fuel) ==
    IF fuel = 0 \/ ns[n].leaf THEN {n}
    ELSE {n} \cup UNION { nodesBelow(ns, ns[n].entries[k].node, fuel - 1) :
                              k \in {j \in 1..Len(ns[n].entries) : ns[n].entries[j].node # Nil} }

\* the nodes reachable from the root
Live == nodesBelow(nodes, root, Len(nodes))

LiveInternal == {n \in Live : ~nodes[n].leaf}

\* the depths below n, itself at depth d, at which a leaf is found
RECURSIVE leafDepths(_, _, _, _)
leafDepths(ns, n, d, fuel) ==
    IF ns[n].leaf THEN {d}
    ELSE IF fuel = 0 THEN {}
    ELSE UNION { leafDepths(ns, ns[n].entries[k].node, d + 1, fuel - 1) :
                     k \in {j \in 1..Len(ns[n].entries) : ns[n].entries[j].node # Nil} }

\* a call on the tree has returned
CallReturned == ~err /\ ~panicked /\ Len(hist) > 0

\* C16: after every Insert and every Delete returns, every leaf is at the same
\* depth below the root
C16_Balanced ==
    CallReturned => Cardinality(leafDepths(nodes, root, 0, Len(nodes))) <= 1

\* C17: after every Insert and every Delete returns, every node other than the
\* root holds at least min entries, for every configuration with max >= min >= 1
C17_MinFill ==
    (CallReturned /\ MaxChildren >= MinChildren /\ MinChildren >= 1) =>
        \A n \in Live \ {root} : Len(nodes[n].entries) >= MinChildren

\* the box of entry e of a live node lies inside the box bb of the node
Inside(e, bb) ==
    /\ bb # NilRect
    /\ getMBR(Heap, e) # NilRect
    /\ contains(bb, getMBR(Heap, e))

\* C18: after every Insert and every Delete returns, the cached mbr of every node
\* contains the rectangle of each of its leaf entries and the cached mbr of each
\* of its children
C18_MbrContainsChildren ==
    CallReturned =>
        \A n \in Live : \A k \in 1..Len(nodes[n].entries) : Inside(nodes[n].entries[k], nodes[n].bb)

\* the number of entries of live internal nodes that hold node c
Referrers(c) ==
    Cardinality({ <<n, k>> \in LiveInternal \X (1..MaxChildren) :
                      k <= Len(nodes[n].entries) /\ nodes[n].entries[k].node = c })

\* C19: after every Insert and every Delete returns, the child held by every
\* entry of an internal node has that node as its parent, and every node
\* reachable from the root other than the root is held by exactly one entry
C19_ParentPointers ==
    CallReturned =>
        /\ \A n \in LiveInternal : \A k \in 1..Len(nodes[n].entries) :
               /\ nodes[n].entries[k].node # Nil
               /\ nodes[nodes[n].entries[k].node].parent = n
        /\ \A c \in Live \ {root} : Referrers(c) = 1

\* the sort key of entry e: its Hilbert value for a leaf entry, the LHV of its
\* child for an internal entry
SortKey(e) == IF e.leaf THEN e.h ELSE nodes[e.node].lhv

\* C20: after every Insert and every Delete returns, the entries of every node
\* are in non-decreasing order of their sort key
C20_EntriesSorted ==
    CallReturned =>
        \A n \in Live : \A k \in 1..(Len(nodes[n].entries) - 1) :
            SortKey(nodes[n].entries[k]) <= SortKey(nodes[n].entries[k + 1])

\* the value the spec gives the lhv of a node with the entries es: the largest
\* sort key among them
RECURSIVE maxKey(_, _, _)
maxKey(es, i, m) ==
    IF i > Len(es) THEN m
    ELSE maxKey(es, i + 1, IF SortKey(es[i]) > m THEN SortKey(es[i]) ELSE m)

\* C21: after every Insert and every Delete returns, the cached lhv of every node
\* that has entries is the largest Hilbert value among its entries for a leaf and
\* the largest lhv among its children for an internal node
C21_LhvIsLargest ==
    CallReturned =>
        \A n \in Live :
            nodes[n].entries # <<>> => nodes[n].lhv = maxKey(nodes[n].entries, 1, 0)

\* the smallest rectangle around the boxes of the entries es from the i-th on,
\* grown from bb
RECURSIVE unionFrom(_, _, _)
unionFrom(es, i, bb) ==
    IF i > Len(es) THEN bb ELSE unionFrom(es, i + 1, enlarge(bb, getMBR(Heap, es[i])))

\* C22: after every Insert and every Delete returns, the cached mbr of every node
\* that has entries is exactly the smallest rectangle enclosing the boxes of its
\* entries
C22_MbrIsTight ==
    CallReturned =>
        \A n \in Live :
            nodes[n].entries # <<>> =>
                /\ nodes[n].bb # NilRect
                /\ \A k \in 1..Len(nodes[n].entries) : getMBR(Heap, nodes[n].entries[k]) # NilRect
                /\ nodes[n].bb = unionFrom(nodes[n].entries, 2, getMBR(Heap, nodes[n].entries[1]))

\* the pairs <<m, depth>> of the nodes m of the subtree of n, itself at depth d
RECURSIVE nodesAt(_, _, _, _)
nodesAt(ns, n, d, fuel) ==
    IF fuel = 0 \/ ns[n].leaf THEN {<<n, d>>}
    ELSE {<<n, d>>} \cup UNION { nodesAt(ns, ns[n].entries[k].node, d + 1, fuel - 1) :
                                    k \in {j \in 1..Len(ns[n].entries) : ns[n].entries[j].node # Nil} }

\* the nodes reachable from the root, each with the depths it is reached at
Placed == nodesAt(nodes, root, 0, Len(nodes))

\* the depths at which node n is reached from the root
DepthsOf(n) == {p[2] : p \in {q \in Placed : q[1] = n}}

\* m is a neighbour n may have: a live node of n's level and kind
Level(n, m) ==
    /\ m \in Live
    /\ DepthsOf(m) = DepthsOf(n)
    /\ nodes[m].leaf = nodes[n].leaf

\* C23: after every Insert and every Delete returns, for every node n reachable
\* from the root, n.left.right == n if n.left exists, n.right.left == n if n.right
\* exists, and both neighbours are at n's level and have n's leaf flag
C23_SiblingLinks ==
    CallReturned =>
        \A n \in Live :
            /\ nodes[n].left # Nil =>
                   nodes[nodes[n].left].right = n /\ Level(n, nodes[n].left)
            /\ nodes[n].right # Nil =>
                   nodes[nodes[n].right].left = n /\ Level(n, nodes[n].right)

\* the node reached from n by going down d times through the first entry; Nil when
\* there is none
RECURSIVE leftmost(_, _, _)
leftmost(ns, n, d) ==
    IF d = 0 THEN n
    ELSE IF ns[n].leaf \/ ns[n].entries = <<>> THEN Nil
    ELSE leftmost(ns, ns[n].entries[1].node, d - 1)

\* the nodes met from n on by following right pointers
RECURSIVE chain(_, _, _)
chain(ns, n, fuel) ==
    IF n = Nil \/ fuel = 0 THEN <<>> ELSE <<n>> \o chain(ns, ns[n].right, fuel - 1)

\* the nodes reachable from the root at depth d
LevelNodes(d) == {p[1] : p \in {q \in Placed : q[2] = d}}

\* the chain c lists the live nodes of depth d, each once, by non-decreasing lhv,
\* and the leaf entries along it are in Hilbert order
ChainOk(c, d) ==
    /\ {c[i] : i \in 1..Len(c)} = LevelNodes(d)
    /\ Len(c) = Cardinality(LevelNodes(d))
    /\ \A i \in 1..(Len(c) - 1) : nodes[c[i]].lhv <= nodes[c[i + 1]].lhv
    /\ \A i \in 1..Len(c) : \A j \in (i + 1)..Len(c) :
           \A k \in 1..Len(nodes[c[i]].entries) : \A l \in 1..Len(nodes[c[j]].entries) :
               (nodes[c[i]].leaf /\ nodes[c[j]].leaf) =>
                   nodes[c[i]].entries[k].h <= nodes[c[j]].entries[l].h

\* C24: after every Insert and every Delete returns, at each level the right
\* pointers lead from the leftmost node through every live node of the level
\* exactly once and through no other node, in non-decreasing lhv order, so that the
\* leaves read left to right list the stored entries in Hilbert order
C24_LevelChains ==
    CallReturned =>
        \A d \in {p[2] : p \in Placed} :
            ChainOk(chain(nodes, leftmost(nodes, root, d), Len(nodes) + 1), d)

\* C25: after every Insert and every Delete returns, a root that is an internal
\* node has at least 2 entries
C25_InternalRootFanout ==
    (CallReturned /\ ~nodes[root].leaf) => Len(nodes[root].entries) >= 2

\* the elements of a sequence
Range(q) == { q[i] : i \in DOMAIN q }

\* the last call was an Insert and it returned
InsertReturned == InsertCalled /\ ~panicked

\* the nodes the last call allocated
Allocated == (Len(pre.nodes) + 1)..Len(nodes)

\* the nodes the last call split off the old root: allocated by it, of the old
\* root's kind, and holding an entry the old root held before the call
RootSplits ==
    { m \in Allocated \ {root} :
          /\ nodes[m].leaf = pre.nodes[pre.root].leaf
          /\ Range(nodes[m].entries) \cap Range(pre.nodes[pre.root].entries) # {} }

\* the height of a tree: the depth of its deepest leaf
Deepest(ds) == IF ds = {} THEN 0 ELSE CHOOSE d \in ds : \A x \in ds : x <= d

Height(ns, rt) == Deepest(leafDepths(ns, rt, 0, Len(ns)))

\* C26: an Insert installs a new root exactly when the old root was split by it;
\* the new root then holds two entries, the old root and the node split off it,
\* and the tree is one level higher; in every other Insert the root stays the
\* same node and the height stays the same
C26_RootGrowth ==
    InsertReturned =>
        /\ (root # pre.root) <=> (RootSplits # {})
        /\ (root # pre.root) =>
               /\ Len(nodes[root].entries) = 2
               /\ \E m \in RootSplits :
                      {nodes[root].entries[1].node, nodes[root].entries[2].node} = {pre.root, m}
               /\ Height(nodes, root) = Height(pre.nodes, pre.root) + 1
        /\ (root = pre.root) => Height(nodes, root) = Height(pre.nodes, pre.root)

\* the heap before the last call
PreHeap == [nodes |-> pre.nodes, panic |-> FALSE]

\* the calls of handleOverflow that adjustTreeForInsert makes from node n upwards,
\* each as the heap s it is made on and its arguments n and e
RECURSIVE overflowClimb(_, _, _, _, _, _, _)
RECURSIVE overflowNext(_, _, _, _)
overflowClimb(s, n, nn, pp, newSiblings, sl, fuel) ==
    IF s.panic \/ fuel = 0 THEN <<>>
    ELSE IF s.nodes[n].parent = Nil THEN <<>>
    ELSE (IF nn # Nil /\ isOverflow(s, s.nodes[n].parent)
          THEN << [s |-> s, n |-> s.nodes[n].parent, e |-> nodeEntry(nn)] >>
          ELSE <<>>)
         \o overflowNext(parentStep(s, s.nodes[n].parent, nn, pp, newSiblings),
                         s.nodes[n].parent, sl, fuel)

overflowNext(r, np, sl, fuel) ==
    overflowClimb(adjustParents(r.s, sl, 1), np, r.pp, r.pp, r.newSiblings, r.newSiblings, fuel - 1)

overflowAbove(r, leaf) == overflowClimb(r.s, leaf, r.nn, Nil, <<>>, r.nodes, Fuel(r.s))

\* the calls of handleOverflow that tree.insert(e) makes once the leaf is chosen
overflowCallsAt(s, e, leaf) ==
    IF leaf = Nil THEN <<>>
    ELSE (IF isOverflow(s, leaf) THEN << [s |-> s, n |-> leaf, e |-> e] >> ELSE <<>>)
         \o overflowAbove(placeInLeaf(s, leaf, e), leaf)

\* the calls of handleOverflow that tree.Insert(obj) makes on the tree (s, rt)
overflowCalls(s, rt, obj) ==
    overflowCallsAt(s, leafEntry(obj, hilbertOf(ToCenter(Bounds(obj)))),
                    chooseNode(s, rt, hilbertOf(ToCenter(Bounds(obj))), Fuel(s)))

\* the calls of handleOverflow the last call made
LastOverflows ==
    IF InsertCalled THEN overflowCalls(PreHeap, pre.root, LastCall.obj) ELSE <<>>

\* the number of entries the nodes ns[k..] hold
RECURSIVE heldBy(_, _, _)
heldBy(s, ns, k) ==
    IF k > Len(ns) THEN 0 ELSE Len(s.nodes[ns[k]].entries) + heldBy(s, ns, k + 1)

\* handleOverflow(c.n, c.e) on the heap c.s returned r, the cohort being ns:
\* it split exactly when the cohort could not hold one more entry
SplitWhenFull(c, r, ns) ==
    /\ Len(ns) <= SiblingsNumber
    /\ ns = IF c.s.nodes[c.n].right = Nil THEN << c.n >> ELSE << c.n, c.s.nodes[c.n].right >>
    /\ (r.nn # Nil) <=> (heldBy(c.s, ns, 1) + 1 > Len(ns) * MaxChildren)
    /\ (r.nn = Nil) => (Len(r.s.nodes) = Len(c.s.nodes) /\ r.nodes = ns)

\* the node nn a split returned is new, of e's kind and linked in to the left of n
SplitLinked(c, r) ==
    (r.nn # Nil) =>
        /\ r.nn = Len(c.s.nodes) + 1
        /\ Len(r.s.nodes) = Len(c.s.nodes) + 1
        /\ r.s.nodes[r.nn].leaf = c.e.leaf
        /\ r.s.nodes[r.nn].right = c.n
        /\ r.s.nodes[c.n].left = r.nn
        /\ r.s.nodes[r.nn].left = c.s.nodes[c.n].left
        /\ (c.s.nodes[c.n].left # Nil) => (r.s.nodes[c.s.nodes[c.n].left].right = r.nn)

OverflowAsSpecified(c, r) ==
    SplitWhenFull(c, r, getSiblings(c.s, c.n, SiblingsNumber)) /\ SplitLinked(c, r)

\* C27: handleOverflow(n, e) allocates a node exactly when the entries of n and of
\* its right sibling plus e exceed |cohort| * max, and otherwise only redistributes
\* among the cohort and returns no node; the node it allocates has e's leaf flag
\* and is linked immediately to the left of n
C27_OverflowSplits ==
    \A k \in DOMAIN LastOverflows :
        OverflowAsSpecified(LastOverflows[k],
                            handleOverflow(LastOverflows[k].s, LastOverflows[k].n, LastOverflows[k].e))

\* the last Insert made a call of handleOverflow that split a cohort of two
\* nodes, n having a left neighbour as well
C27_Witness ==
    /\ InsertReturned
    /\ \E k \in DOMAIN LastOverflows :
           /\ LastOverflows[k].s.nodes[LastOverflows[k].n].left # Nil
           /\ LastOverflows[k].s.nodes[LastOverflows[k].n].right # Nil
           /\ handleOverflow(LastOverflows[k].s, LastOverflows[k].n, LastOverflows[k].e).nn # Nil

\* the call of handleUnderflow made on node dn of heap s1, if dn is short
underflowOf(s1, minC, dn) ==
    IF s1.panic THEN <<>>
    ELSE IF Len(s1.nodes[dn].entries) < minC THEN << [s |-> s1, n |-> dn] >>
    ELSE <<>>

\* the call of handleUnderflow one level of adjustTreeForRemove makes for the
\* removed node nn
underflowAt(s, minC, nn) ==
    IF nn = Nil THEN <<>>
    ELSE underflowOf(removeNonLeaf(s, s.nodes[nn].parent, nn), minC, s.nodes[nn].parent)

\* the calls of handleUnderflow that adjustTreeForRemove makes from node n
\* upwards, each as the heap s it is made on and its target n
RECURSIVE underflowClimb(_, _, _, _, _, _, _)
RECURSIVE underflowNext(_, _, _, _, _)
underflowClimb(s, minC, n, nn, newSiblings, sl, fuel) ==
    IF s.panic \/ fuel = 0 THEN <<>>
    ELSE IF s.nodes[n].parent = Nil THEN <<>>
    ELSE underflowAt(s, minC, nn)
         \o underflowNext(removeStep(s, minC, nn, newSiblings), minC, s.nodes[n].parent, sl, fuel)

underflowNext(r, minC, np, sl, fuel) ==
    underflowClimb(adjustParents(r.s, sl, 1), minC, np, r.nn,
                   Append(r.nodes, np), Append(r.nodes, np), fuel - 1)

underflowAbove(u, minC, leaf) == underflowClimb(u.s, minC, leaf, u.nn, <<>>, u.nodes, Fuel(u.s))

\* the calls of handleUnderflow that Delete makes from leaf.removeLeaf(obj) on
underflowRemoved(rl, minC, leaf) ==
    IF ~rl.ok THEN <<>>
    ELSE underflowOf(rl.s, minC, leaf)
         \o underflowAbove(underflowStep(rl.s, minC, leaf), minC, leaf)

underflowFound(s, minC, obj, f) ==
    IF f.panic \/ f.leaf = Nil THEN <<>>
    ELSE underflowRemoved(removeLeaf(s, f.leaf, obj), minC, f.leaf)

\* the calls of handleUnderflow that tree.Delete(obj) makes on the tree (s, rt)
underflowCalls(s, minC, rt, obj) == underflowFound(s, minC, obj, findLeaf(s, rt, obj, Fuel(s)))

\* the last call was a Delete
DeleteCalled == ~err /\ Len(hist) > 0 /\ LastCall.op = "Delete"

\* the calls of handleUnderflow the last call made
LastUnderflows ==
    IF DeleteCalled THEN underflowCalls(PreHeap, MinChildren, pre.root, LastCall.obj) ELSE <<>>

\* the entries the nodes ns[k..] hold, every node counted once
RECURSIVE entriesOf(_, _, _, _)
entriesOf(s, ns, k, seen) ==
    IF k > Len(ns) THEN <<>>
    ELSE IF ns[k] \in seen THEN entriesOf(s, ns, k + 1, seen)
    ELSE s.nodes[ns[k]].entries \o entriesOf(s, ns, k + 1, seen \cup {ns[k]})

\* the sequences p and q hold the same entries the same number of times
SameEntries(p, q) ==
    \A x \in Range(p) \cup Range(q) :
        Cardinality({i \in DOMAIN p : p[i] = x}) = Cardinality({i \in DOMAIN q : q[i] = x})

\* handleOverflow(c.n, c.e) on the heap c.s returned r: the cohort r.nodes holds
\* what the cohort held before, and e
OverflowKeeps(c, r) ==
    ~r.s.panic /\ SameEntries(<< c.e >> \o entriesOf(c.s, getSiblings(c.s, c.n, SiblingsNumber), 1, {}),
                              entriesOf(r.s, r.nodes, 1, {}))

\* handleUnderflow(c.n) on the heap c.s returned r: the cohort r.nodes holds what
\* the cohort held before
UnderflowKeeps(c, r) ==
    ~r.s.panic /\ SameEntries(entriesOf(c.s, getSiblings(c.s, c.n, SiblingsNumber + 1), 1, {}),
                              entriesOf(r.s, r.nodes, 1, {}))

\* C28: handleOverflow and handleUnderflow neither lose nor duplicate entries: for
\* every cohort size, a single node included, the surviving cohort nodes hold after
\* the call exactly the entries pooled from the cohort before it (and the new entry
\* e for handleOverflow)
C28_CohortKeepsEntries ==
    /\ \A k \in DOMAIN LastOverflows :
           OverflowKeeps(LastOverflows[k],
                         handleOverflow(LastOverflows[k].s, LastOverflows[k].n, LastOverflows[k].e))
    /\ \A k \in DOMAIN LastUnderflows :
           UnderflowKeeps(LastUnderflows[k],
                          handleUnderflow(LastUnderflows[k].s, MinChildren, LastUnderflows[k].n))

\* the cohort of handleUnderflow: the target and the nodes to its right, three
\* at most
IsUnderflowCohort(s, n, ns) ==
    /\ Len(ns) >= 1 /\ Len(ns) <= SiblingsNumber + 1
    /\ ns[1] = n
    /\ \A i \in 2..Len(ns) : ns[i] = s.nodes[ns[i - 1]].right
    /\ Len(ns) < SiblingsNumber + 1 => s.nodes[ns[Len(ns)]].right = Nil

\* node nn is out of the chain of its level: its former neighbours l and rr point
\* at each other
Unlinked(s, l, rr) ==
    /\ l # Nil => s.nodes[l].right = rr
    /\ rr # Nil => s.nodes[rr].left = l

\* handleUnderflow(c.n) on the heap c.s returned r, the cohort being ns
UnderflowAsSpecified(c, r, ns) ==
    /\ IsUnderflowCohort(c.s, c.n, ns)
    /\ (r.nn # Nil) <=> /\ Len(entriesOf(c.s, ns, 1, {})) < Len(ns) * MinChildren
                        /\ c.s.nodes[c.n].parent # Nil
    /\ (r.nn # Nil) =>
           /\ r.nn = ns[1]
           /\ r.nodes = Tail(ns)
           /\ Unlinked(r.s, c.s.nodes[ns[1]].left, c.s.nodes[ns[1]].right)
    /\ (r.nn = Nil) =>
           /\ r.nodes = ns
           /\ SameEntries(entriesOf(c.s, ns, 1, {}), entriesOf(r.s, ns, 1, {}))

\* C29: every call handleUnderflow(target) that returns has pooled the entries of
\* target and of up to two right siblings; it removed the leftmost cohort node,
\* unlinked from the sibling chain and returned, exactly when the pool had fewer
\* than |cohort| * min entries and target had a parent; otherwise every cohort node
\* was kept and the pool redistributed over the whole cohort
C29_UnderflowRemoves ==
    \A k \in DOMAIN LastUnderflows :
        \E r \in {handleUnderflow(LastUnderflows[k].s, MinChildren, LastUnderflows[k].n)} :
            ~r.s.panic =>
                UnderflowAsSpecified(LastUnderflows[k], r,
                                     getSiblings(LastUnderflows[k].s, LastUnderflows[k].n,
                                                 SiblingsNumber + 1))

\* the last Delete made handleUnderflow remove an internal node that had a right
\* sibling, and the call returned
C29_Witness ==
    /\ DeleteReturned
    /\ \E k \in DOMAIN LastUnderflows :
           /\ ~LastUnderflows[k].s.nodes[LastUnderflows[k].n].leaf
           /\ LastUnderflows[k].s.nodes[LastUnderflows[k].n].right # Nil
           /\ handleUnderflow(LastUnderflows[k].s, MinChildren, LastUnderflows[k].n).nn # Nil

\* the pools the calls of handleOverflow and handleUnderflow of the last call
\* handed to redistributeEntries, each with what the call returned
overflowDeal(c) ==
    [pool |-> poolNodes(c.s, getSiblings(c.s, c.n, SiblingsNumber), 1, listInsert(<<>>, c.e).list).pool,
     r |-> handleOverflow(c.s, c.n, c.e)]

underflowDeal(c) ==
    [pool |-> poolNodes(c.s, getSiblings(c.s, c.n, SiblingsNumber + 1), 1, <<>>).pool,
     r |-> handleUnderflow(c.s, MinChildren, c.n)]

LastDeals ==
    [k \in DOMAIN LastOverflows |-> overflowDeal(LastOverflows[k])]
        \o [k \in DOMAIN LastUnderflows |-> underflowDeal(LastUnderflows[k])]

\* the slice of the pool that cohort node i of n nodes is to receive
Slice(pool, i, n) ==
    SubSeq(pool, (i - 1) * ceilDiv(Len(pool), n) + 1,
           IF i * ceilDiv(Len(pool), n) < Len(pool) THEN i * ceilDiv(Len(pool), n) ELSE Len(pool))

\* the LHV of entry e on heap s: its Hilbert value for a leaf entry, the LHV of
\* its child for an internal entry
lhvIn(s, e) == IF e.leaf THEN e.h ELSE s.nodes[e.node].lhv

\* the largest LHV among the entries es[i..], m at least
RECURSIVE largestLhv(_, _, _, _)
largestLhv(s, es, i, m) ==
    IF i > Len(es) THEN m
    ELSE largestLhv(s, es, i + 1, IF lhvIn(s, es[i]) > m THEN lhvIn(s, es[i]) ELSE m)

\* the smallest rectangle around bb and the boxes of the entries es[i..]
RECURSIVE unionIn(_, _, _, _)
unionIn(s, es, i, bb) ==
    IF i > Len(es) THEN bb ELSE unionIn(s, es, i + 1, enlarge(bb, getMBR(s, es[i])))

\* node n of heap s holds the entries es, with mbr and lhv computed from them
Holds(s, n, es) ==
    /\ s.nodes[n].entries = es
    /\ es # <<>> =>
           /\ s.nodes[n].lhv = largestLhv(s, es, 1, 0)
           /\ \A k \in DOMAIN es : getMBR(s, es[k]) # NilRect
           /\ s.nodes[n].bb = unionIn(s, es, 2, getMBR(s, es[1]))

\* redistributeEntries, called with a pool that fits a cohort r.nodes of distinct
\* nodes, returned and dealt the pool to the cohort in consecutive slices
DealtInSlices(pool, r) ==
    (/\ ~r.s.panic
     /\ Len(r.nodes) > 0
     /\ Cardinality(Range(r.nodes)) = Len(r.nodes)
     /\ Len(pool) <= Len(r.nodes) * MaxChildren) =>
        \A i \in DOMAIN r.nodes : Holds(r.s, r.nodes[i], Slice(pool, i, Len(r.nodes)))

\* C30: redistributeEntries(pool, cohort) with |pool| <= |cohort| * max gives the
\* cohort nodes, in order, consecutive slices of the ordered pool, batch =
\* ceil(|pool| / |cohort|) entries each and the remainder to the last node, and
\* the mbr and the lhv of each node are those of its new entries
C30_RedistributeSlices ==
    \A k \in DOMAIN LastDeals : DealtInSlices(LastDeals[k].pool, LastDeals[k].r)

\* the children the entries es of an internal node point at
Children(es) == { es[k].node : k \in DOMAIN es }

\* the children of an internal node that the spec lets chooseNode descend into
\* for the Hilbert value h: those of the smallest LHV that is >= h, or those of
\* the largest LHV when h exceeds the LHV of every child
Admissible(ns, cs, h) ==
    IF \E c \in cs : ns[c].lhv >= h
    THEN { c \in cs : ns[c].lhv >= h /\ \A d \in cs : ns[d].lhv >= h => ns[c].lhv <= ns[d].lhv }
    ELSE { c \in cs : \A d \in cs : ns[d].lhv <= ns[c].lhv }

\* the leaves that rule leads to from node n, applied at every level
RECURSIVE AdmissibleLeaves(_, _, _, _)
AdmissibleLeaves(ns, n, h, fuel) ==
    IF fuel = 0 THEN {}
    ELSE IF ns[n].leaf THEN {n}
    ELSE UNION { AdmissibleLeaves(ns, c, h, fuel - 1) :
                     c \in Admissible(ns, Children(ns[n].entries), h) }

\* C31: chooseNode(n, h) returns n when n is a leaf; for an internal n it descends
\* into the child with the smallest LHV that is >= h, or into the child with the
\* largest LHV when h exceeds every child's LHV, and so on down to a leaf
C31_ChooseNodeByLhv ==
    InsertCalled =>
        LastCall.leaf \in AdmissibleLeaves(pre.nodes, pre.root,
                                           hilbertOf(ToCenter(Bounds(LastCall.obj))),
                                           Len(pre.nodes) + 1)

\* no node of the heap ns holds more than max entries
WithinMax(ns) == \A n \in DOMAIN ns : Len(ns[n].entries) <= ns[n].max

\* C32: no node ever holds more than max entries, in no state between calls and
\* in no heap that a handleOverflow or handleUnderflow of the last call returned;
\* isOverflow() is true exactly when the node holds max entries
C32_NeverAboveMax ==
    /\ WithinMax(nodes)
    /\ \A n \in DOMAIN nodes : isOverflow(Heap, n) <=> (Len(nodes[n].entries) = MaxChildren)
    /\ \A k \in DOMAIN LastDeals : WithinMax(LastDeals[k].r.s.nodes)

\* a Delete panicked because handleUnderflow handed a leaf that was already full
\* one more entry
C32_Witness ==
    /\ DeleteCalled /\ panicked
    /\ \E k \in DOMAIN LastDeals :
           /\ LastDeals[k].r.s.panic
           /\ \E n \in DOMAIN LastDeals[k].r.s.nodes :
                  /\ LastDeals[k].r.s.nodes[n].leaf
                  /\ Len(LastDeals[k].r.s.nodes[n].entries) = MaxChildren
                  /\ Len(LastDeals[k].pool) > MaxChildren

\* the root step that adjustTreeForRemove reaches from node n upwards, as the heap
\* s it is made on and the node n it is made on
RECURSIVE rootStepClimb(_, _, _, _, _, _, _)
RECURSIVE rootStepNext(_, _, _, _, _)
rootStepClimb(s, minC, n, nn, newSiblings, sl, fuel) ==
    IF s.panic \/ fuel = 0 THEN <<>>
    ELSE IF s.nodes[n].parent = Nil THEN << [s |-> s, n |-> n] >>
    ELSE rootStepNext(removeStep(s, minC, nn, newSiblings), minC, s.nodes[n].parent, sl, fuel)

rootStepNext(r, minC, np, sl, fuel) ==
    rootStepClimb(adjustParents(r.s, sl, 1), minC, np, r.nn,
                  Append(r.nodes, np), Append(r.nodes, np), fuel - 1)

rootStepAbove(u, minC, leaf) == rootStepClimb(u.s, minC, leaf, u.nn, <<>>, u.nodes, Fuel(u.s))

rootStepRemoved(rl, minC, leaf) ==
    IF ~rl.ok THEN <<>> ELSE rootStepAbove(underflowStep(rl.s, minC, leaf), minC, leaf)

rootStepFound(s, minC, obj, f) ==
    IF f.panic \/ f.leaf = Nil THEN <<>>
    ELSE rootStepRemoved(removeLeaf(s, f.leaf, obj), minC, f.leaf)

\* the root step of the adjustTreeForRemove that tree.Delete(obj) runs on (s, rt)
rootStepOf(s, minC, rt, obj) == rootStepFound(s, minC, obj, findLeaf(s, rt, obj, Fuel(s)))

\* the root step of the last call, if it was a Delete that got that far
LastRootStep ==
    IF DeleteCalled THEN rootStepOf(PreHeap, MinChildren, pre.root, LastCall.obj) ELSE <<>>

\* in the heap ns the node n is internal and holds exactly one entry
OneChild(ns, n) == ~ns[n].leaf /\ Len(ns[n].entries) = 1

\* the node n of the final heap holds the entries and the leaf flag that the
\* only child of n had in the heap ns
TookOver(ns, n) ==
    /\ nodes[n].leaf = ns[ns[n].entries[1].node].leaf
    /\ SameEntries(nodes[n].entries, ns[ns[n].entries[1].node].entries)

\* C33: when a Delete that returns has left the root internal with exactly one
\* child by the time it is done with the levels below, the root holds that child's
\* entries and leaf flag when Delete returns; no call changes the leaf flag of a
\* node that existed before it in any other situation
C33_RootCollapse ==
    CallReturned =>
        /\ \A k \in DOMAIN LastRootStep :
               OneChild(LastRootStep[k].s.nodes, root) => TookOver(LastRootStep[k].s.nodes, root)
        /\ \A n \in DOMAIN pre.nodes :
               nodes[n].leaf # pre.nodes[n].leaf =>
                   /\ n = root
                   /\ \E k \in DOMAIN LastRootStep :
                          /\ OneChild(LastRootStep[k].s.nodes, n)
                          /\ TookOver(LastRootStep[k].s.nodes, n)

\* a Delete returned after its root step found the root internal with one child,
\* a leaf, so that the root's leaf flag changed
C33_Witness ==
    /\ DeleteReturned
    /\ \E k \in DOMAIN LastRootStep :
           /\ LastRootStep[k].n = root
           /\ OneChild(LastRootStep[k].s.nodes, root)
           /\ LastRootStep[k].s.nodes[LastRootStep[k].s.nodes[root].entries[1].node].leaf
    /\ nodes[root].leaf /\ ~pre.nodes[root].leaf

\* the node n of the heap ns and the nodes above it, by the parent pointers
RECURSIVE Above(_, _, _)
Above(ns, n, fuel) ==
    IF n = Nil \/ fuel = 0 THEN {}
    ELSE {n} \cup Above(ns, ns[n].parent, fuel - 1)

\* the node n is in both heaps the same but for its entries and its mbr/lhv caches
SameLinks(ms, ns, n) ==
    /\ ns[n].parent = ms[n].parent /\ ns[n].left = ms[n].left /\ ns[n].right = ms[n].right
    /\ ns[n].leaf = ms[n].leaf /\ ns[n].min = ms[n].min /\ ns[n].max = ms[n].max

\* C34: an Insert whose chosen leaf holds fewer than max entries adds the new
\* entry to that leaf only: no node is created, no other node's entry list
\* changes, no parent or sibling pointer changes, the root stays the same node, and
\* only the mbr/lhv caches of the leaf and of the nodes above it may change
C34_InsertWithRoom ==
    (InsertCalled /\ LastCall.leaf # Nil /\ Len(pre.nodes[LastCall.leaf].entries) < MaxChildren) =>
        /\ ~panicked
        /\ root = pre.root /\ size = pre.size + 1
        /\ DOMAIN nodes = DOMAIN pre.nodes
        /\ SameEntries(nodes[LastCall.leaf].entries,
                       Append(pre.nodes[LastCall.leaf].entries,
                              leafEntry(LastCall.obj, hilbertOf(ToCenter(Bounds(LastCall.obj))))))
        /\ \A n \in DOMAIN pre.nodes :
               /\ SameLinks(pre.nodes, nodes, n)
               /\ n # LastCall.leaf => nodes[n].entries = pre.nodes[n].entries
               /\ n \notin Above(pre.nodes, LastCall.leaf, Len(pre.nodes) + 1) => nodes[n] = pre.nodes[n]

\* an Insert put its entry into a leaf with room that lies below an internal
\* node, and changed the caches of that leaf and of its parent
C34_Witness ==
    /\ InsertReturned /\ LastCall.leaf # Nil
    /\ Len(pre.nodes[LastCall.leaf].entries) < MaxChildren
    /\ Len(pre.nodes[LastCall.leaf].entries) > 0
    /\ pre.nodes[LastCall.leaf].parent # Nil
    /\ nodes[LastCall.leaf].bb # pre.nodes[LastCall.leaf].bb
    /\ nodes[pre.nodes[LastCall.leaf].parent].bb # pre.nodes[pre.nodes[LastCall.leaf].parent].bb

\* the calls of insertNonLeaf that the root step of adjustTreeForInsert makes for
\* the split root n and its new sibling nn, each as the heap s it is made on, the
\* node n it is made on and its entry e
growCalls(s1, n, nn) ==
    << [s |-> s1, n |-> Len(s1.nodes), e |-> nodeEntry(n)],
       [s |-> insertNonLeaf(s1, Len(s1.nodes), nodeEntry(n)), n |-> Len(s1.nodes), e |-> nodeEntry(nn)] >>

\* the call of insertNonLeaf that one level of adjustTreeForInsert makes on the
\* parent np for the split-off node nn
parentCalls(s, np, nn) ==
    IF nn # Nil /\ ~isOverflow(s, np) THEN << [s |-> s, n |-> np, e |-> nodeEntry(nn)] >> ELSE <<>>

\* the calls of insertNonLeaf that adjustTreeForInsert itself makes from node n
\* upwards
RECURSIVE nonLeafClimb(_, _, _, _, _, _, _, _, _, _)
RECURSIVE nonLeafNext(_, _, _, _, _, _, _)
nonLeafClimb(s, minC, maxC, rt, n, nn, pp, newSiblings, sl, fuel) ==
    IF s.panic \/ fuel = 0 THEN <<>>
    ELSE IF s.nodes[n].parent = Nil
         THEN IF nn # Nil
              THEN growCalls([s EXCEPT !.nodes = Append(@, newNode(minC, maxC))], n, nn)
              ELSE <<>>
         ELSE parentCalls(s, s.nodes[n].parent, nn)
              \o nonLeafNext(parentStep(s, s.nodes[n].parent, nn, pp, newSiblings),
                             minC, maxC, rt, s.nodes[n].parent, sl, fuel)

nonLeafNext(r, minC, maxC, rt, np, sl, fuel) ==
    nonLeafClimb(adjustParents(r.s, sl, 1), minC, maxC, rt,
                 np, r.pp, r.pp, r.newSiblings, r.newSiblings, fuel - 1)

nonLeafAbove(r, minC, maxC, rt, leaf) ==
    nonLeafClimb(r.s, minC, maxC, rt, leaf, r.nn, Nil, <<>>, r.nodes, Fuel(r.s))

nonLeafAt(s, minC, maxC, rt, e, leaf) ==
    IF leaf = Nil THEN <<>> ELSE nonLeafAbove(placeInLeaf(s, leaf, e), minC, maxC, rt, leaf)

\* the calls of insertNonLeaf that the adjustTreeForInsert of tree.Insert(obj) makes
nonLeafCalls(s, minC, maxC, rt, obj) ==
    nonLeafAt(s, minC, maxC, rt, leafEntry(obj, hilbertOf(ToCenter(Bounds(obj)))),
              chooseNode(s, rt, hilbertOf(ToCenter(Bounds(obj))), Fuel(s)))

\* the calls of insertNonLeaf that the adjustTreeForInsert of the last call made
LastNonLeafCalls ==
    IF InsertCalled THEN nonLeafCalls(PreHeap, MinChildren, MaxChildren, pre.root, LastCall.obj)
    ELSE <<>>

\* the child c went to index it (from 0) of the list es of node n: it has n as
\* parent, the child before it as left and the child after it as right neighbour,
\* and where there is no such child it has the pointer it had in the heap ms
LinkedBetween(ms, ns, n, c, es, it) ==
    /\ ns[c].parent = n
    /\ IF it > 0 THEN ns[c].left = es[it].node /\ ns[es[it].node].right = c
                 ELSE ns[c].left = ms[c].left
    /\ IF it < Len(es) - 1 THEN ns[c].right = es[it + 2].node /\ ns[es[it + 2].node].left = c
                           ELSE ns[c].right = ms[c].right

\* insertNonLeaf(e) on node n of the heap s gave the heap r and the list rl
NonLeafAsSpecified(s, n, e, r, rl) ==
    ~r.panic => LinkedBetween(s.nodes, r.nodes, n, e.node, rl.list, rl.index)

\* C35: insertNonLeaf(e) on node n sets e.node.parent = n and links e.node between
\* the children held by the entries just before and just after it in the list of
\* n; where n has no entry before (after) it, the left (right) pointer of e.node
\* keeps the value it had before the call
C35_InsertNonLeafLinks ==
    \A k \in DOMAIN LastNonLeafCalls :
        NonLeafAsSpecified(LastNonLeafCalls[k].s, LastNonLeafCalls[k].n, LastNonLeafCalls[k].e,
                           insertNonLeaf(LastNonLeafCalls[k].s, LastNonLeafCalls[k].n, LastNonLeafCalls[k].e),
                           listInsert(LastNonLeafCalls[k].s.nodes[LastNonLeafCalls[k].n].entries,
                                      LastNonLeafCalls[k].e))

\* C36: isUnderflow() is true if and only if the node holds fewer than min
\* entries: a node with at least min and fewer than max entries is not
\* underflowing
C36_UnderflowBelowMin ==
    \A n \in DOMAIN nodes : isUnderflow(Heap, n) <=> (Len(nodes[n].entries) < nodes[n].min)

====
